---- MODULE Spec2Model ----
(***************************************************************************)
(* Model of scripts/create-api-key.js: the N8NAPIManager pipeline          *)
(* (readiness -> acquisition -> validation -> persistence -> notification) *)
(* with its catch block and the exit status set by main().                 *)
(*                                                                         *)
(* Every HTTP response, browser outcome and database result is an input    *)
(* chosen by the environment at the step that awaits it.  Error messages   *)
(* are sequences of message parts, so that "the message contains ..." is a *)
(* sub-sequence test.  A token is represented by its length.               *)
(***************************************************************************)
EXTENDS Integers, Sequences, FiniteSets, TLC

VARIABLES
    rc,             \* position of main()/run(): "new", "run", "catch", "rethrow", "exit"
    stage,          \* per pipeline stage: "idle", "running", "ok", "failed"
    runError,       \* message of the error caught by run(), <<>> when none
    exitCode,       \* -1 while the process lives, then the process.exit argument
    \* ---- waitForN8NReady locals
    rpc,            \* "probe", "login", "settle", "none"
    i,              \* loop variable of the polling loop
    ep,             \* index of the next health endpoint of this round
    healthCheckPassed,
    probes,         \* health GETs issued by the current invocation
    delays,         \* inter-round sleeps taken by the current invocation
    settleMs,       \* length of the settle sleep about to be taken
    lastHealth,     \* outcome of the latest health GET, -1 before the first
    roundLog,       \* the health GETs of the latest round: path and outcome, in order
    loginProbe,     \* outcome of the confirmatory login POST, -1 when not made
    \* ---- acquisition
    apc,            \* "login", "create", "launch", "walk", "screenshot", "close", "none"
    sessionCalls, browserCalls,
    sessionError, browserError,
    apiKeyData,     \* [apiKey |-> token length, label, createdAt, method |-> creationMethod]
    browserOpen, closeCalls, screenshotCalls, pendingKey,
    loginPosts,      \* POSTs to /rest/login sent by createAPIKeyViaSession
    createPosts,     \* POSTs to /rest/api-keys sent by createAPIKeyViaSession
    lastLogin,       \* the response to the login POST
    lastCreate,      \* the response to the creation POST
    submittedLabel,  \* the label given to the target for the latest key it was asked to create
    emailInput,      \* the element held by emailInput after the selector loop
    passwordInput,   \* the element held by passwordInput after the selector loop
    emailCandidate,  \* TRUE when some e-mail selector yielded a visible element
    passwordCandidate, \* TRUE when some password selector yielded a visible element
    typed,           \* the fields typed into, in order
    currentUrl,      \* page.url() after the login form was submitted
    errorShown,      \* TRUE when an error-styled element was on the page
    xi,              \* index of the next apiKeySelectors entry of the extraction
    candidate,       \* apiKey after the selector loop: its length, NoCandidate for null
    pageText,        \* the token text that page.content() holds
    pageSearched,    \* TRUE once the page content was searched for a token
    browserLaunched, \* TRUE once puppeteer.launch has returned a browser
    pageOpened,      \* TRUE once browser.newPage has returned a page
    screenshotFailed, \* TRUE once a page.screenshot call has thrown
    \* ---- validateAPIKey
    vi,             \* index of the next validation endpoint
    vreq,           \* endpoints requested so far, in order
    vresp,          \* responses received so far, in order
    isValid,        \* "unknown", "true", "false"
    \* ---- persistence layer and notifier
    storeCalls, diagCalls, webhookCalls,
    webhookUrl,     \* TRUE when WEBHOOK_URL is configured
    \* ---- setup-api.sh, the wrapper that runs the node script
    shpc,           \* "readiness", "loginprobe", "preflight", "node", "exit"
    counter,        \* seconds waited by the readiness loop
    n8nReady,       \* n8n_ready
    attempt,        \* attempts made by the login endpoint loop
    loginEndpointReady, \* login_endpoint_ready
    shExit,         \* exit status of the wrapper, -1 while it runs
    env,            \* the environment: missing required variables, formats
    baseUrl,        \* this.baseUrl, a sequence of URL parts; <<>> before construction
    payload,        \* the body of the webhook POST, NoPayload when none was sent
    webhookResult,  \* "none", "skipped", "delivered", "failed"
    diagResult,     \* outcome of the error update of run()'s catch: "none", "ok", "failed"
    dbRow,          \* TRUE when a record with id = USER_ID exists
    dbKey,          \* n8n_api_key of that record (token length), NoKey when empty
    dbErr,          \* n8n_setup_error held by that record
    dbErrAt,        \* n8n_setup_error_timestamp of that record, NoTime when empty
    dbUpdatedAt,    \* updated_at of that record
    dbLabel,        \* n8n_api_key_label of that record
    dbCreatedAt,    \* n8n_api_key_created_at of that record
    storeLog        \* per finished storeAPIKeyInSupabase call: its argument and outcome

vars == <<rc, stage, runError, exitCode, rpc, i, ep, healthCheckPassed, probes,
          delays, settleMs, lastHealth, roundLog, loginProbe, apc, sessionCalls, browserCalls, sessionError,
          browserError, apiKeyData, browserOpen, closeCalls, screenshotCalls,
          pendingKey, browserLaunched, pageOpened, screenshotFailed, loginPosts,
          createPosts, lastLogin, lastCreate, submittedLabel, emailInput, passwordInput, emailCandidate,
          passwordCandidate, typed, currentUrl, errorShown, xi, candidate, pageText,
          pageSearched, shpc, counter, n8nReady,
          attempt, loginEndpointReady, shExit, env, baseUrl, payload, webhookResult,
          diagResult, vi, vreq, vresp, isValid, storeCalls, diagCalls,
          webhookCalls, webhookUrl, dbRow, dbKey, dbErr, dbErrAt, dbUpdatedAt, dbLabel, dbCreatedAt,
          storeLog>>

readyVars == <<rpc, i, ep, healthCheckPassed, probes, delays, settleMs,
               lastHealth, roundLog, loginProbe>>
acqVars   == <<apc, sessionCalls, browserCalls, sessionError, browserError,
               apiKeyData, browserOpen, closeCalls, screenshotCalls, pendingKey,
               browserLaunched, pageOpened, screenshotFailed, loginPosts, createPosts,
               lastLogin, lastCreate, submittedLabel, emailInput, passwordInput, emailCandidate,
               passwordCandidate, typed, currentUrl, errorShown, xi, candidate,
               pageText, pageSearched>>
valVars   == <<vi, vreq, vresp, isValid>>
shellVars == <<shpc, counter, n8nReady, attempt, loginEndpointReady, shExit>>
extractVars == <<xi, candidate, pageText, pageSearched>>
loginVars == <<emailInput, passwordInput, emailCandidate, passwordCandidate, typed,
               currentUrl, errorShown>>
sessVars  == <<loginPosts, createPosts, lastLogin, lastCreate, submittedLabel>>
pageVars  == <<pageOpened, screenshotFailed>>
ioVars    == <<storeCalls, diagCalls, webhookCalls, webhookUrl, dbRow, dbKey, dbErr, dbErrAt, dbUpdatedAt,
               dbLabel, dbCreatedAt, storeLog, env, baseUrl, payload, webhookResult,
               diagResult, shpc, counter, n8nReady, attempt, loginEndpointReady,
               shExit>>
topVars   == <<rc, runError, exitCode>>

----------------------------------------------------------------------------
(* Pipeline order and the await between consecutive stages                 *)

Stages == <<"readiness", "acquisition", "validation", "persistence", "notification">>

StageSet == {Stages[k] : k \in 1..Len(Stages)}

StageIndex(s) == CHOOSE k \in 1..Len(Stages) : Stages[k] = s

AwaitedNoWait(s) == stage[s] \in {"running", "ok"}

\* `await this.<stage>()` resolved: the next statement of run() is reached
\* only when the promise of the previous stage has resolved.
Awaited(s) == stage[s] = "ok"

CanStart(s) ==
    /\ rc = "run"
    /\ stage[s] = "idle"
    /\ StageIndex(s) > 1 => Awaited(Stages[StageIndex(s) - 1])

\* A rejected stage promise lands in the catch block of run().
Fail(s, msg) ==
    /\ stage' = [stage EXCEPT ![s] = "failed"]
    /\ runError' = msg
    /\ rc' = "catch"
    /\ UNCHANGED exitCode

Succeed(s) ==
    /\ stage' = [stage EXCEPT ![s] = "ok"]
    /\ UNCHANGED topVars

----------------------------------------------------------------------------
(* setup-api.sh: the loops that precede the node script                    *)

\* The wrapper is past its checks and blocked in
\* `timeout 900 node /app/scripts/create-api-key.js`.
ShellWaitsForNode ==
    /\ shpc = "node"
    /\ counter = 0
    /\ n8nReady = TRUE
    /\ attempt = 0
    /\ loginEndpointReady = TRUE
    /\ shExit = -1

\* timeout=900
ShellTimeout == 900

\* sleep 15; counter=$((counter + 15))
ShellSleep == 15

\* login_test_attempts=5
LoginTestAttempts == 5

\* The wrapper at the top of its readiness loop; node has not been started.
ShellStarts ==
    /\ shpc = "readiness"
    /\ counter = 0
    /\ n8nReady = FALSE
    /\ attempt = 0
    /\ loginEndpointReady = FALSE
    /\ shExit = -1

\* what the wrapper's loops leave alone: the whole node program
ShellFrame ==
    UNCHANGED <<rc, stage, runError, exitCode, readyVars, acqVars, valVars, storeCalls,
                diagCalls, webhookCalls, webhookUrl, dbRow, dbKey, dbErr, dbErrAt, dbUpdatedAt, dbLabel,
                dbCreatedAt, storeLog, env, baseUrl, payload, webhookResult, diagResult>>

\* One iteration of `while [ $counter -lt $timeout ]`: the endpoints are
\* tried three times each; a success breaks out of the loop, the 45 s
\* pause follows and the login endpoint loop starts.
ShellReadinessRound ==
    /\ shpc = "readiness"
    /\ counter < ShellTimeout
    /\ \E up \in BOOLEAN :
          IF up
            THEN /\ n8nReady' = TRUE
                 /\ shpc' = "loginprobe"
                 /\ UNCHANGED counter
            ELSE /\ counter' = counter + ShellSleep
                 /\ UNCHANGED <<n8nReady, shpc>>
    /\ UNCHANGED <<attempt, loginEndpointReady, shExit>>
    /\ ShellFrame

\* The loop ran out: n8n_ready is false, exit 1.
ShellReadinessTimeout ==
    /\ shpc = "readiness"
    /\ ~(counter < ShellTimeout)
    /\ shpc' = "exit"
    /\ shExit' = 1
    /\ UNCHANGED <<counter, n8nReady, attempt, loginEndpointReady>>
    /\ ShellFrame

\* What one login_test=$(curl ...) can give: a status from 200 to 599, an
\* output that does not match, or a curl failure, which ends the script
\* under set -e with curl's exit status.
ShellProbeOutcomes == {"status", "nomatch", "curlfails"}

CurlExit == 7

\* One iteration of `for attempt in $(seq 1 $login_test_attempts)`.
ShellLoginProbe ==
    /\ shpc = "loginprobe"
    /\ attempt < LoginTestAttempts
    /\ attempt' = attempt + 1
    /\ \E r \in ShellProbeOutcomes :
          CASE r = "status" ->
                  /\ loginEndpointReady' = TRUE
                  /\ shpc' = "preflight"
                  /\ UNCHANGED shExit
            [] r = "nomatch" ->
                  UNCHANGED <<loginEndpointReady, shpc, shExit>>
            [] r = "curlfails" ->
                  /\ shpc' = "exit"
                  /\ shExit' = CurlExit
                  /\ UNCHANGED loginEndpointReady
    /\ UNCHANGED <<counter, n8nReady>>
    /\ ShellFrame

\* The loop ran out: login_endpoint_ready is false, exit 1.
ShellLoginExhausted ==
    /\ shpc = "loginprobe"
    /\ ~(attempt < LoginTestAttempts)
    /\ shpc' = "exit"
    /\ shExit' = 1
    /\ UNCHANGED <<counter, n8nReady, attempt, loginEndpointReady>>
    /\ ShellFrame

\* The credential test and the pre-flight checks, then
\* `timeout 900 node /app/scripts/create-api-key.js`: the node process
\* starts.  The loop counters are not read again.
ShellRunsNode ==
    /\ shpc = "preflight"
    /\ rc = "shell"
    /\ \E curlOk \in BOOLEAN :
          IF curlOk
            THEN /\ shpc' = "node"
                 /\ rc' = "new"
                 /\ counter' = 0
                 /\ attempt' = 0
                 /\ UNCHANGED shExit
            ELSE /\ shpc' = "exit"
                 /\ shExit' = CurlExit
                 /\ UNCHANGED <<rc, counter, attempt>>
    /\ UNCHANGED <<n8nReady, loginEndpointReady>>
    /\ UNCHANGED <<stage, runError, exitCode, readyVars, acqVars, valVars, storeCalls,
                   diagCalls, webhookCalls, webhookUrl, dbRow, dbKey, dbErr, dbErrAt, dbUpdatedAt, dbLabel,
                   dbCreatedAt, storeLog, env, baseUrl, payload, webhookResult,
                   diagResult>>

NextShell ==
    \/ ShellReadinessRound
    \/ ShellReadinessTimeout
    \/ ShellLoginProbe
    \/ ShellLoginExhausted
    \/ ShellRunsNode

----------------------------------------------------------------------------
(* constructor and validateEnvironment                                     *)

required == <<"N8N_USER_EMAIL", "N8N_USER_PASSWORD", "SUPABASE_URL",
              "SUPABASE_SERVICE_ROLE_KEY", "USER_ID">>

RequiredSet == {required[k] : k \in 1..Len(required)}

MaxSlashes == 2

HostPart == "https://n8n.example.com"

\* A URL as a sequence of parts: scheme and host, then n slashes.
Url(n) == <<HostPart>> \o [k \in 1..n |-> "/"]

\* An environment: the state of N8N_EDITOR_BASE_URL || N8N_URL (with the
\* number of slashes the value ends in), the required variables that are
\* unset or empty, and whether the e-mail matches the pattern.
Environments ==
    {e \in [baseUrl : {"missing", "malformed", "ok"},
            slashes : 0..MaxSlashes,
            missing : SUBSET RequiredSet,
            emailOk : BOOLEAN] :
        e.baseUrl # "ok" => e.slashes = 0}

ValidEnv == [baseUrl |-> "ok", slashes |-> 0, missing |-> {}, emailOk |-> TRUE]

\* process.env.N8N_EDITOR_BASE_URL || process.env.N8N_URL
InputUrl(e) ==
    IF e.baseUrl = "missing" THEN <<>>
    ELSE IF e.baseUrl = "malformed" THEN <<"n8n.example.com">>
    ELSE Url(e.slashes)

\* this.baseUrl.replace(/\/$/, ''): the pattern matches one slash at the end
StripTrailingSlash(url) ==
    IF url # <<>> /\ url[Len(url)] = "/" THEN SubSeq(url, 1, Len(url) - 1) ELSE url

MissingListFirstOnly(e) ==
    LET all == SelectSeq(required, LAMBDA k : k \in e.missing)
    IN  IF all = <<>> THEN <<>> ELSE <<all[1]>>

\* required.filter(key => !process.env[key]), in the order of `required`
MissingList(e) == SelectSeq(required, LAMBDA k : k \in e.missing)

\* validateEnvironment: the first check that fails decides the error.
ValidateEnvironment(e) ==
    IF e.baseUrl = "missing"
      THEN <<"Missing N8N URL: Set either N8N_EDITOR_BASE_URL or N8N_URL">>
    ELSE IF e.baseUrl = "malformed"
      THEN <<"Invalid N8N URL format">>
    ELSE IF e.missing # {}
      THEN <<"Missing required environment variables">> \o MissingList(e)
    ELSE IF ~e.emailOk
      THEN <<"Invalid email format">>
    ELSE <<>>

\* if (this.supabaseUrl && this.supabaseKey) this.supabase = createClient(...)
HasSupabaseClient(e) ==
    "SUPABASE_URL" \notin e.missing /\ "SUPABASE_SERVICE_ROLE_KEY" \notin e.missing

\* the URL checks of validateEnvironment pass: line 81 is reached
UrlAccepted(e) == e.baseUrl = "ok"

ConstructLenient ==
    /\ rc = "new"
    /\ baseUrl' = StripTrailingSlash(InputUrl(env))
    /\ \E clientOk \in BOOLEAN :
          LET err == IF HasSupabaseClient(env) /\ ~clientOk
                       THEN <<"createClient failed">>
                       ELSE IF env.missing # {} THEN <<>> ELSE ValidateEnvironment(env)
          IN  IF err = <<>>
                THEN rc' = "run" /\ UNCHANGED runError
                ELSE rc' = "rethrow" /\ runError' = err
    /\ UNCHANGED <<stage, exitCode, readyVars, acqVars, valVars, storeCalls, diagCalls,
                   webhookCalls, webhookUrl, dbRow, dbKey, dbErr, dbErrAt, dbUpdatedAt, dbLabel, dbCreatedAt,
                   storeLog, env, shellVars, payload, webhookResult, diagResult>>

\* new N8NAPIManager() inside main()'s try: this.baseUrl is read from the
\* environment, createClient may throw, then validateEnvironment; an
\* exception skips run() and lands in main()'s catch.
Construct ==
    /\ rc = "new"
    /\ \E clientOk \in BOOLEAN :
          LET clientThrows == HasSupabaseClient(env) /\ ~clientOk
              err == IF clientThrows
                       THEN <<"createClient failed">>
                       ELSE ValidateEnvironment(env)
          IN  /\ baseUrl' = IF ~clientThrows /\ UrlAccepted(env)
                              THEN StripTrailingSlash(InputUrl(env))
                              ELSE InputUrl(env)
              /\ IF err = <<>>
                    THEN rc' = "run" /\ UNCHANGED runError
                    ELSE rc' = "rethrow" /\ runError' = err
    /\ UNCHANGED <<stage, exitCode, readyVars, acqVars, valVars, storeCalls, diagCalls,
                   webhookCalls, webhookUrl, dbRow, dbKey, dbErr, dbErrAt, dbUpdatedAt, dbLabel, dbCreatedAt,
                   storeLog, env, shellVars, payload, webhookResult, diagResult>>

----------------------------------------------------------------------------
(* Step 1: waitForN8NReady                                                 *)

maxAttempts == 45

healthEndpoints == <<"/healthz", "/healthz/readiness", "/api/v1/healthz", "/">>

\* What a health GET can produce: a status (validateStatus accepts all) or a
\* connection-level failure.
HealthResponses == {200, 503, 0}

ConnFail == 0

\* no request has been answered yet
NoResponse == -1

\* const delay = 20000
delay == 20000

\* `${maxAttempts}` and `${(maxAttempts * delay / 1000 / 60).toFixed(1)}`
\* in text: decimal digits and, for toFixed(1), one digit after the point.
RECURSIVE Digits(_)
Digits(n) ==
    IF n < 10 THEN <<n>> ELSE Digits(n \div 10) \o <<n % 10>>

DigitText == <<"0", "1", "2", "3", "4", "5", "6", "7", "8", "9">>

RECURSIVE Join(_)
Join(ds) ==
    IF ds = <<>> THEN <<>> ELSE <<DigitText[Head(ds) + 1]>> \o Join(Tail(ds))

NumberText(n) == Join(Digits(n))

\* tenths of a minute, rounded as toFixed(1) rounds
ToFixed1(ms) ==
    LET tenths == (ms + 3000) \div 6000
    IN  NumberText(tenths \div 10) \o <<".">> \o NumberText(tenths % 10)

ReadinessTimeoutMsg ==
    <<"N8N instance is not accessible after ">> \o NumberText(maxAttempts)
        \o <<" attempts over ">> \o ToFixed1(maxAttempts * delay) \o <<" minutes">>

StartReadiness ==
    /\ CanStart("readiness")
    /\ stage' = [stage EXCEPT !["readiness"] = "running"]
    /\ rpc' = "probe"
    /\ i' = 0
    /\ ep' = 1
    /\ healthCheckPassed' = FALSE
    /\ probes' = 0
    /\ delays' = 0
    /\ lastHealth' = NoResponse
    /\ roundLog' = <<>>
    /\ loginProbe' = NoResponse
    /\ UNCHANGED <<settleMs, topVars, acqVars, valVars, ioVars>>

LoopContinuesOffByOne == i <= maxAttempts

\* for (let i = 0; i < maxAttempts; i++)
LoopContinues == i < maxAttempts

HealthyAnyResponse(r) == r # ConnFail

\* if (response.status === 200)
Healthy(r) == r = 200

ProbeHealthAbortsRound ==
    /\ stage["readiness"] = "running"
    /\ rpc = "probe"
    /\ LoopContinues
    /\ ~healthCheckPassed
    /\ ep <= Len(healthEndpoints)
    /\ \E r \in HealthResponses :
          /\ probes' = probes + 1
          /\ lastHealth' = r
          /\ roundLog' = (IF ep = 1 THEN <<>> ELSE roundLog)
                            \o <<[path |-> healthEndpoints[ep], status |-> r]>>
          /\ IF Healthy(r)
                THEN /\ healthCheckPassed' = TRUE
                     /\ rpc' = "login"
                     /\ ep' = ep
                ELSE /\ healthCheckPassed' = FALSE
                     /\ rpc' = rpc
                     /\ ep' = IF r = ConnFail THEN Len(healthEndpoints) + 1 ELSE ep + 1
    /\ UNCHANGED <<i, delays, settleMs, loginProbe, stage, topVars, acqVars,
                   valVars, ioVars>>

\* One GET of the inner for-of loop.
ProbeHealth ==
    /\ stage["readiness"] = "running"
    /\ rpc = "probe"
    /\ LoopContinues
    /\ ~healthCheckPassed
    /\ ep <= Len(healthEndpoints)
    /\ \E r \in HealthResponses :
          /\ probes' = probes + 1
          /\ lastHealth' = r
          /\ roundLog' = (IF ep = 1 THEN <<>> ELSE roundLog)
                            \o <<[path |-> healthEndpoints[ep], status |-> r]>>
          /\ IF Healthy(r)
                THEN /\ healthCheckPassed' = TRUE
                     /\ rpc' = "login"
                     /\ ep' = ep
                ELSE /\ healthCheckPassed' = FALSE
                     /\ rpc' = rpc
                     /\ ep' = ep + 1
    /\ UNCHANGED <<i, delays, settleMs, loginProbe, stage, topVars, acqVars,
                   valVars, ioVars>>

\* End of a round in which no endpoint answered 200: sleep unless this was
\* the last round, then i++.
EndRound ==
    /\ stage["readiness"] = "running"
    /\ rpc = "probe"
    /\ LoopContinues
    /\ ~healthCheckPassed
    /\ ep > Len(healthEndpoints)
    /\ delays' = IF i < maxAttempts - 1 THEN delays + 1 ELSE delays
    /\ i' = i + 1
    /\ ep' = 1
    /\ UNCHANGED <<rpc, healthCheckPassed, probes, settleMs, lastHealth, roundLog,
                   loginProbe, stage, topVars, acqVars, valVars, ioVars>>

LoginProbeResponses == {200, 401, 500, 0}

\* The confirmatory POST /rest/login: validateStatus is status < 500, so a
\* 5xx status or a connection failure throws into the inner catch, which
\* sleeps 15 s and returns true; otherwise 30 s and return true.
ProbeLogin ==
    /\ stage["readiness"] = "running"
    /\ rpc = "login"
    /\ \E r \in LoginProbeResponses :
          /\ loginProbe' = r
          /\ settleMs' = IF r # ConnFail /\ r < 500 THEN 30000 ELSE 15000
    /\ rpc' = "settle"
    /\ UNCHANGED <<i, ep, healthCheckPassed, probes, delays, lastHealth, roundLog, stage,
                   topVars, acqVars, valVars, ioVars>>

\* The settle sleep elapses and the function returns true; its locals die.
SettleAndReturn ==
    /\ stage["readiness"] = "running"
    /\ rpc = "settle"
    /\ Succeed("readiness")
    /\ rpc' = "none"
    /\ i' = 0
    /\ ep' = 1
    /\ probes' = 0
    /\ delays' = 0
    /\ healthCheckPassed' = FALSE
    /\ settleMs' = 0
    /\ lastHealth' = NoResponse
    /\ roundLog' = <<>>
    /\ loginProbe' = NoResponse
    /\ UNCHANGED <<acqVars, valVars, ioVars>>

ReadinessTimeoutReturnsFalse ==
    /\ stage["readiness"] = "running"
    /\ rpc = "probe"
    /\ ~LoopContinues
    /\ Succeed("readiness")
    /\ rpc' = "none"
    /\ UNCHANGED <<i, ep, healthCheckPassed, probes, delays, settleMs,
                   lastHealth, roundLog, loginProbe, acqVars, valVars, ioVars>>

ReadinessTimeoutWaitsOn ==
    /\ stage["readiness"] = "running"
    /\ rpc = "probe"
    /\ ~LoopContinues
    /\ i' = 0
    /\ ep' = 1
    /\ probes' = 0
    /\ delays' = 0
    /\ UNCHANGED <<rpc, healthCheckPassed, settleMs, lastHealth, roundLog, loginProbe, stage,
                   topVars, acqVars, valVars, ioVars>>

\* Loop exhausted: throw new Error(`N8N instance is not accessible ...`)
ReadinessTimeout ==
    /\ stage["readiness"] = "running"
    /\ rpc = "probe"
    /\ ~LoopContinues
    /\ Fail("readiness", ReadinessTimeoutMsg)
    /\ rpc' = "none"
    /\ UNCHANGED <<i, ep, healthCheckPassed, probes, delays, settleMs,
                   lastHealth, roundLog, loginProbe, acqVars, valVars, ioVars>>

----------------------------------------------------------------------------
(* Step 2: createAPIKeyViaSession, falling back to createAPIKeyViaBrowser  *)

NoError == <<>>

AxiosErrorMsg == <<"Request failed">>

\* Login responses: [status, cookie]; status 0 is a connection failure.
SessionLoginResponses ==
    {[status |-> 200, cookie |-> TRUE], [status |-> 200, cookie |-> FALSE],
     [status |-> 401, cookie |-> FALSE], [status |-> 0, cookie |-> FALSE]}

\* Creation responses: [status, key]; key is the length of the token field
\* of the body, 0 when the body has none.
SessionCreateResponses ==
    {[status |-> 201, key |-> 64], [status |-> 200, key |-> 21],
     [status |-> 201, key |-> 20], [status |-> 200, key |-> 0],
     [status |-> 404, key |-> 0], [status |-> 500, key |-> 0]}

\* no response received (yet)
NoReply == [status |-> NoResponse]

\* validateStatus: status < 500; a connection failure throws as well.
AxiosThrows(status) == status = ConnFail \/ status >= 500

\* No credential yet (let apiKeyData; creationMethod = 'unknown').
NoCredential == [apiKey |-> 0, label |-> "", createdAt |-> "", method |-> "unknown"]

\* The record returned by an acquirer: { apiKey, label: keyLabel, createdAt }
\* with keyLabel = `API-${userId}-${Date.now()}`, plus run()'s creationMethod.
\* const keyLabel = `API-${this.userId}-${Date.now()}`
KeyLabel == "API-user-t1"

\* the label the target gives a key created with the label field untouched
TargetDefaultLabel == "target default"

\* no key has been asked for
NoLabel == ""

Credential(key, method) ==
    [apiKey |-> key, label |-> KeyLabel, createdAt |-> "t1", method |-> method]

StartAcquisition ==
    /\ CanStart("acquisition")
    /\ stage' = [stage EXCEPT !["acquisition"] = "running"]
    /\ apc' = "login"
    /\ sessionCalls' = sessionCalls + 1
    /\ UNCHANGED <<browserCalls, sessionError, browserError, apiKeyData,
                   browserOpen, browserLaunched, closeCalls, screenshotCalls, pendingKey, pageVars,
                   topVars, readyVars, valVars, ioVars, sessVars, loginVars,
                   extractVars>>

SessionFailsRetry(msg) ==
    /\ sessionError' = msg
    /\ apc' = "login"
    /\ sessionCalls' = sessionCalls + 1
    /\ UNCHANGED <<browserCalls, browserError, apiKeyData, browserOpen, browserLaunched,
                   closeCalls, screenshotCalls, pendingKey, pageVars, stage, topVars>>

\* catch (sessionError) in run(): the browser method is called next.
SessionFails(msg) ==
    /\ sessionError' = msg
    /\ apc' = "launch"
    /\ browserCalls' = browserCalls + 1
    /\ UNCHANGED <<sessionCalls, browserError, apiKeyData, browserOpen, browserLaunched,
                   closeCalls, screenshotCalls, pendingKey, pageVars, stage, topVars>>

SessionLogin ==
    /\ stage["acquisition"] = "running"
    /\ apc = "login"
    /\ loginPosts' = loginPosts + 1
    /\ UNCHANGED <<createPosts, lastCreate, submittedLabel>>
    /\ \E r \in SessionLoginResponses :
          /\ lastLogin' = r
          /\ IF AxiosThrows(r.status) THEN SessionFails(AxiosErrorMsg)
             ELSE IF r.status # 200 THEN SessionFails(<<"Login failed with status">>)
             ELSE IF ~r.cookie THEN SessionFails(<<"No session cookies received">>)
             ELSE /\ apc' = "create"
                  /\ UNCHANGED <<sessionCalls, browserCalls, sessionError, browserError,
                                 apiKeyData, browserOpen, browserLaunched, closeCalls,
                                 screenshotCalls, pendingKey, pageVars, stage, topVars>>
    /\ UNCHANGED <<readyVars, valVars, ioVars, loginVars,
                   extractVars>>

SessionKeyUsableAnyLength(len) == len > 0

\* apiKey && apiKey.length > 20
SessionKeyUsable(len) == len > 0 /\ len > 20

SessionCreate ==
    /\ stage["acquisition"] = "running"
    /\ apc = "create"
    /\ createPosts' = createPosts + 1
    /\ UNCHANGED <<loginPosts, lastLogin>>
    /\ \E r \in SessionCreateResponses :
          /\ lastCreate' = r
          /\ submittedLabel' = KeyLabel
          /\ IF AxiosThrows(r.status) THEN SessionFails(AxiosErrorMsg)
             ELSE IF r.status \notin {200, 201}
                THEN SessionFails(<<"Session API creation failed with status">>)
             ELSE IF ~SessionKeyUsable(r.key)
                THEN SessionFails(<<"Invalid API key from session method">>)
             ELSE /\ apiKeyData' = Credential(r.key, "session")
                  /\ apc' = "none"
                  /\ Succeed("acquisition")
                  /\ UNCHANGED <<sessionCalls, browserCalls, sessionError, browserError,
                                 browserOpen, browserLaunched, closeCalls, screenshotCalls,
                                 pendingKey, pageVars>>
    /\ UNCHANGED <<readyVars, valVars, ioVars, loginVars,
                   extractVars>>

\* puppeteer.launch and browser.newPage
BrowserLaunch ==
    /\ stage["acquisition"] = "running"
    /\ apc = "launch"
    /\ \E r \in {"ok", "nolaunch", "nopage"} :
          CASE r = "ok" ->
                  /\ browserLaunched' = TRUE
                  /\ browserOpen' = TRUE
                  /\ pageOpened' = TRUE
                  /\ apc' = "walk"
                  /\ UNCHANGED browserError
            [] r = "nolaunch" ->
                  /\ browserLaunched' = FALSE
                  /\ browserOpen' = FALSE
                  /\ pageOpened' = FALSE
                  /\ apc' = "screenshot"
                  /\ browserError' = <<"Failed to launch the browser process">>
            [] r = "nopage" ->
                  /\ browserLaunched' = TRUE
                  /\ browserOpen' = TRUE
                  /\ pageOpened' = FALSE
                  /\ apc' = "screenshot"
                  /\ browserError' = <<"Failed to open a new page">>
    /\ UNCHANGED <<sessionCalls, browserCalls, sessionError, apiKeyData, closeCalls,
                   screenshotCalls, pendingKey, screenshotFailed, stage, topVars,
                   readyVars, valVars, ioVars, sessVars, loginVars,
                   extractVars>>

\* Errors thrown by the steps of the UI walkthrough before extraction.
BrowserStepErrors ==
    {<<"Could not find email input field">>,
     <<"Login failed - still on signin page">>,
     <<"Could not find API key creation button">>}

\* Length of the extracted, trimmed value; 0 when nothing was found.
BrowserKeyLens == {0, 8, 19, 20, 64}

BrowserKeyUsableNonEmpty(len) == len # 0

BrowserKeyUsableLoose(len) == ~(len = 0 \/ len < 19)

\* the negation of  !apiKey || apiKey.length < 20
BrowserKeyUsable(len) == ~(len = 0 \/ len < 20)

ExtractFailedMsg == <<"Failed to extract valid API key from page">>

\* let apiKey = null
NoCandidate == -1

\* the extraction of the key has not been reached
ExtractionNotStarted ==
    /\ xi = 1
    /\ candidate = NoCandidate
    /\ pageText = "none"
    /\ pageSearched = FALSE

\* The walkthrough from page.goto('/signin') to the extraction of the key;
\* the label is typed into the first visible label input, and when there is
\* none the form is submitted with the label field as the target shows it.
\* An unusable extracted value takes its own screenshot before it throws.
BrowserWalk ==
    /\ stage["acquisition"] = "running"
    /\ apc = "walk"
    /\ \/ \E e \in BrowserStepErrors :
             /\ browserError' = e
             /\ apc' = "screenshot"
             /\ UNCHANGED <<pendingKey, screenshotCalls, screenshotFailed,
                            submittedLabel>>
       \/ \E len \in BrowserKeyLens, labelSet \in BOOLEAN :
             /\ submittedLabel' = IF labelSet THEN KeyLabel ELSE TargetDefaultLabel
             /\ IF BrowserKeyUsable(len)
                   THEN /\ pendingKey' = len
                        /\ apc' = "close"
                        /\ UNCHANGED <<browserError, screenshotCalls, screenshotFailed>>
                   ELSE /\ screenshotCalls' = screenshotCalls + 1
                        /\ \E saved \in BOOLEAN :
                              screenshotFailed' = (screenshotFailed \/ ~saved)
                        /\ browserError' = ExtractFailedMsg
                        /\ apc' = "screenshot"
                        /\ UNCHANGED pendingKey
    /\ UNCHANGED <<sessionCalls, browserCalls, sessionError, apiKeyData, browserOpen,
                   browserLaunched, pageOpened, closeCalls, stage, topVars, readyVars,
                   valVars, ioVars, loginPosts, createPosts, lastLogin,
                   lastCreate, loginVars,
                   extractVars>>

BrowserScreenshotMasks ==
    /\ stage["acquisition"] = "running"
    /\ apc = "screenshot"
    /\ IF pageOpened
          THEN /\ screenshotCalls' = screenshotCalls + 1
               /\ \E saved \in BOOLEAN :
                     /\ screenshotFailed' = (screenshotFailed \/ ~saved)
                     /\ browserError' = IF saved THEN browserError
                                        ELSE <<"Could not take error screenshot">>
          ELSE UNCHANGED <<screenshotCalls, screenshotFailed, browserError>>
    /\ apc' = "close"
    /\ UNCHANGED <<sessionCalls, browserCalls, sessionError, apiKeyData, browserOpen,
                   browserLaunched, pageOpened, closeCalls, pendingKey, stage, topVars,
                   readyVars, valVars, ioVars, sessVars, loginVars,
                   extractVars>>

\* catch (error): if (page) the error screenshot, whose own failure is
\* swallowed; then throw error.
BrowserScreenshot ==
    /\ stage["acquisition"] = "running"
    /\ apc = "screenshot"
    /\ IF pageOpened
          THEN /\ screenshotCalls' = screenshotCalls + 1
               /\ \E saved \in BOOLEAN :
                     screenshotFailed' = (screenshotFailed \/ ~saved)
          ELSE UNCHANGED <<screenshotCalls, screenshotFailed>>
    /\ apc' = "close"
    /\ UNCHANGED <<sessionCalls, browserCalls, sessionError, browserError, apiKeyData,
                   browserOpen, browserLaunched, pageOpened, closeCalls, pendingKey,
                   stage, topVars, readyVars, valVars, ioVars, sessVars, loginVars,
                   extractVars>>

CombinedErrorBrowserOnly(s, b) == <<"API key creation failed: Browser (">> \o b \o <<")">>

\* `API key creation failed: Session (${s}) and Browser (${b})`
CombinedError(s, b) ==
    <<"API key creation failed: Session (">> \o s \o <<") and Browser (">> \o b \o <<")">>

BrowserCloseOnSuccessOnly ==
    /\ stage["acquisition"] = "running"
    /\ apc = "close"
    /\ IF browserLaunched /\ browserError = NoError
          THEN /\ closeCalls' = closeCalls + 1
               /\ \E closed \in BOOLEAN : browserOpen' = ~closed
          ELSE UNCHANGED <<closeCalls, browserOpen>>
    /\ apc' = "none"
    /\ IF browserError = NoError
          THEN /\ apiKeyData' = Credential(pendingKey, "browser")
               /\ Succeed("acquisition")
          ELSE /\ Fail("acquisition", CombinedError(sessionError, browserError))
               /\ UNCHANGED apiKeyData
    /\ UNCHANGED <<sessionCalls, browserCalls, sessionError, browserError,
                   screenshotCalls, pendingKey, pageVars, browserLaunched, readyVars, valVars,
                   ioVars, sessVars, loginVars,
                   extractVars>>

\* finally { if (browser) browser.close() } with the close error swallowed,
\* then the function returns or rethrows; a rethrown error reaches
\* catch (browserError) in run().
BrowserClose ==
    /\ stage["acquisition"] = "running"
    /\ apc = "close"
    /\ IF browserLaunched
          THEN /\ closeCalls' = closeCalls + 1
               /\ \E closed \in BOOLEAN : browserOpen' = ~closed
          ELSE UNCHANGED <<closeCalls, browserOpen>>
    /\ apc' = "none"
    /\ IF browserError = NoError
          THEN /\ apiKeyData' = Credential(pendingKey, "browser")
               /\ Succeed("acquisition")
          ELSE /\ Fail("acquisition", CombinedError(sessionError, browserError))
               /\ UNCHANGED apiKeyData
    /\ UNCHANGED <<sessionCalls, browserCalls, sessionError, browserError,
                   screenshotCalls, pendingKey, pageVars, browserLaunched, readyVars, valVars,
                   ioVars, sessVars, loginVars,
                   extractVars>>

----------------------------------------------------------------------------
(* Step 3: validateAPIKey                                                  *)

testEndpoints == <<"/rest/workflows", "/rest/credentials", "/rest/executions">>

Timeout == 1

\* What a validation GET can produce: a status, a connection failure (0)
\* or a timeout (1).
ValidationResponses == {200, 401, 403, 404, 500, ConnFail, Timeout}

ValidationFailedMsg == <<"Created API key failed validation tests">>

StartValidation ==
    /\ CanStart("validation")
    /\ stage' = [stage EXCEPT !["validation"] = "running"]
    /\ vi' = 0
    /\ vreq' = <<>>
    /\ vresp' = <<>>
    /\ isValid' = "unknown"
    /\ UNCHANGED <<topVars, readyVars, acqVars, ioVars>>

\* !apiKey || apiKey.length < 20
KeyTooShort(len) == len = 0 \/ len < 20

ValidatePrecheck ==
    /\ stage["validation"] = "running"
    /\ vi = 0
    /\ isValid = "unknown"
    /\ IF KeyTooShort(apiKeyData.apiKey)
          THEN isValid' = "false" /\ vi' = vi
          ELSE isValid' = isValid /\ vi' = 1
    /\ UNCHANGED <<vreq, vresp, stage, topVars, readyVars, acqVars, ioVars>>

ProbeVerdictNo401Stop(r) ==
    IF r = Timeout \/ AxiosThrows(r) THEN "unknown"
    ELSE IF r = 200 THEN "true"
    ELSE IF r = 403 THEN "true"
    ELSE "unknown"

ProbeVerdict404Fails(r) ==
    IF r = Timeout \/ AxiosThrows(r) THEN "unknown"
    ELSE IF r = 200 THEN "true"
    ELSE IF r = 401 \/ r = 404 THEN "false"
    ELSE IF r = 403 THEN "true"
    ELSE "unknown"

\* The body of the for-of loop for one response: a thrown request is caught
\* and the loop continues; 200 and 403 return true, 401 returns false, any
\* other status falls through to the next endpoint.
ProbeVerdict(r) ==
    IF r = Timeout \/ AxiosThrows(r) THEN "unknown"
    ELSE IF r = 200 THEN "true"
    ELSE IF r = 401 THEN "false"
    ELSE IF r = 403 THEN "true"
    ELSE "unknown"

ValidateProbe ==
    /\ stage["validation"] = "running"
    /\ vi \in 1..Len(testEndpoints)
    /\ isValid = "unknown"
    /\ \E r \in ValidationResponses :
          /\ vreq' = Append(vreq, testEndpoints[vi])
          /\ vresp' = Append(vresp, r)
          /\ isValid' = ProbeVerdict(r)
    /\ vi' = vi + 1
    /\ UNCHANGED <<stage, topVars, readyVars, acqVars, ioVars>>

ExhaustedVerdictPessimistic == "false"

\* return true; // Assume valid if we can't definitively prove it's invalid
ExhaustedVerdict == "true"

ValidateExhausted ==
    /\ stage["validation"] = "running"
    /\ vi > Len(testEndpoints)
    /\ isValid = "unknown"
    /\ isValid' = ExhaustedVerdict
    /\ UNCHANGED <<vi, vreq, vresp, stage, topVars, readyVars, acqVars, ioVars>>

ValidationReturnUnchecked ==
    /\ stage["validation"] = "running"
    /\ isValid # "unknown"
    /\ Succeed("validation")
    /\ UNCHANGED <<valVars, readyVars, acqVars, ioVars>>

\* const isValid = await this.validateAPIKey(...); if (!isValid) throw ...
ValidationReturn ==
    /\ stage["validation"] = "running"
    /\ isValid # "unknown"
    /\ IF isValid = "true"
          THEN Succeed("validation")
          ELSE Fail("validation", ValidationFailedMsg)
    /\ UNCHANGED <<valVars, readyVars, acqVars, ioVars>>

----------------------------------------------------------------------------
(* Step 4: storeAPIKeyInSupabase                                           *)

StartStore ==
    /\ CanStart("persistence")
    /\ stage' = [stage EXCEPT !["persistence"] = "running"]
    /\ storeCalls' = storeCalls + 1
    /\ UNCHANGED <<diagCalls, webhookCalls, webhookUrl, env, shellVars, baseUrl, webhookResult, payload, diagResult, dbRow, dbKey, dbErr, dbErrAt, dbUpdatedAt,
                   dbLabel, dbCreatedAt, storeLog, topVars, readyVars, acqVars,
                   valVars>>

\* the record holds no token
NoKey == 0

\* a timestamp field that was never written by this job
NoTime == 0

\* new Date().toISOString() at a write to the record, once the call that
\* makes the write has been counted: the writes of the job are numbered in
\* the order they are made.
Now == storeCalls + diagCalls

\* the token a record holds from an earlier invocation of the job
OldKey == 32

\* What .update(updateData).eq('id', userId).select() answers: an error,
\* an empty data array (no row has this id) or the updated row.
UpdateResult(dbOk, rowExists) ==
    IF ~dbOk THEN "dberror" ELSE IF ~rowExists THEN "norows" ELSE "rows"

StoreThrowsOnErrorOnly(result) == result = "dberror"

StoreThrowsOnEmptyOnly(result) == result = "norows"

\* if (error) throw error;  if (!data || data.length === 0) throw new Error(...)
StoreThrows(result) == result # "rows"

StoreErrorMsg(result) ==
    IF result = "dberror" THEN <<"Supabase update error">>
                          ELSE <<"No user found with ID">>

StoreUpsert ==
    /\ stage["persistence"] = "running"
    /\ \E dbOk \in BOOLEAN :
          LET result == UpdateResult(dbOk, TRUE) IN
          /\ storeLog' = Append(storeLog, [cred |-> apiKeyData, result |-> result])
          /\ IF result = "rows"
                THEN /\ dbRow' = TRUE
                     /\ dbKey' = apiKeyData.apiKey
                     /\ dbLabel' = apiKeyData.label
                     /\ dbCreatedAt' = apiKeyData.createdAt
                     /\ dbUpdatedAt' = Now
                ELSE UNCHANGED <<dbRow, dbKey, dbLabel, dbCreatedAt, dbUpdatedAt>>
          /\ IF StoreThrows(result)
                THEN Fail("persistence", StoreErrorMsg(result))
                ELSE Succeed("persistence")
    /\ UNCHANGED <<storeCalls, diagCalls, webhookCalls, webhookUrl, env, shellVars, baseUrl, webhookResult, payload, diagResult, dbErr,
                   dbErrAt, readyVars, acqVars, valVars>>

StoreUpdateClearsError ==
    /\ stage["persistence"] = "running"
    /\ \E dbOk \in BOOLEAN :
          LET result == UpdateResult(dbOk, dbRow) IN
          /\ storeLog' = Append(storeLog, [cred |-> apiKeyData, result |-> result])
          /\ IF result = "rows"
                THEN /\ dbKey' = apiKeyData.apiKey
                     /\ dbLabel' = apiKeyData.label
                     /\ dbCreatedAt' = apiKeyData.createdAt
                     /\ dbUpdatedAt' = Now
                     /\ dbErr' = NoError
                     /\ dbErrAt' = NoTime
                ELSE UNCHANGED <<dbKey, dbLabel, dbCreatedAt, dbUpdatedAt, dbErr, dbErrAt>>
          /\ IF StoreThrows(result)
                THEN Fail("persistence", StoreErrorMsg(result))
                ELSE Succeed("persistence")
    /\ UNCHANGED <<storeCalls, diagCalls, webhookCalls, webhookUrl, env, shellVars,
                   baseUrl, webhookResult, payload, diagResult, dbRow, readyVars,
                   acqVars, valVars>>

StoreUpdateKeepsFirst ==
    /\ stage["persistence"] = "running"
    /\ \E dbOk \in BOOLEAN :
          LET result == UpdateResult(dbOk, dbRow) IN
          /\ storeLog' = Append(storeLog, [cred |-> apiKeyData, result |-> result])
          /\ IF result = "rows" /\ dbKey = NoKey
                THEN /\ dbKey' = apiKeyData.apiKey
                     /\ dbLabel' = apiKeyData.label
                     /\ dbCreatedAt' = apiKeyData.createdAt
                     /\ dbUpdatedAt' = Now
                ELSE UNCHANGED <<dbKey, dbLabel, dbCreatedAt, dbUpdatedAt>>
          /\ IF StoreThrows(result)
                THEN Fail("persistence", StoreErrorMsg(result))
                ELSE Succeed("persistence")
    /\ UNCHANGED <<storeCalls, diagCalls, webhookCalls, webhookUrl, env, shellVars, baseUrl, webhookResult, payload, diagResult, dbRow, dbErr,
                   dbErrAt, readyVars, acqVars, valVars>>

\* The update, the two checks of its answer, and return data or throw.  An
\* UPDATE matches rows, it never creates one.
StoreUpdate ==
    /\ stage["persistence"] = "running"
    /\ \E dbOk \in BOOLEAN :
          LET result == UpdateResult(dbOk, dbRow) IN
          /\ storeLog' = Append(storeLog, [cred |-> apiKeyData, result |-> result])
          /\ IF result = "rows"
                THEN /\ dbKey' = apiKeyData.apiKey
                     /\ dbLabel' = apiKeyData.label
                     /\ dbCreatedAt' = apiKeyData.createdAt
                     /\ dbUpdatedAt' = Now
                ELSE UNCHANGED <<dbKey, dbLabel, dbCreatedAt, dbUpdatedAt>>
          /\ IF StoreThrows(result)
                THEN Fail("persistence", StoreErrorMsg(result))
                ELSE Succeed("persistence")
    /\ UNCHANGED <<storeCalls, diagCalls, webhookCalls, webhookUrl, env, shellVars, baseUrl, webhookResult, payload, diagResult, dbRow, dbErr,
                   dbErrAt, readyVars, acqVars, valVars>>

----------------------------------------------------------------------------
(* Step 5: sendWebhookNotification                                         *)

StartNotify ==
    /\ CanStart("notification")
    /\ stage' = [stage EXCEPT !["notification"] = "running"]
    /\ UNCHANGED <<topVars, readyVars, acqVars, valVars, ioVars>>

\* No URL: return without a request.  Otherwise one POST whose failure is
\* caught and logged.
WebhookResponses == {200, 500, ConnFail, Timeout}

\* axios.post without validateStatus rejects on every non-2xx status.
WebhookDelivered(r) == r # ConnFail /\ r # Timeout /\ r >= 200 /\ r < 300

NoPayload == [status |-> <<"none">>]

HexDigits == <<"0", "1", "2", "3", "4", "5", "6", "7", "8", "9", "a", "b", "c", "d",
               "e", "f">>

\* The characters of a token of the given length.
TokenChars(len) == [k \in 1..len |-> HexDigits[((k * 7) % 16) + 1]]

\* String.prototype.substring(from, to) for 0 <= from <= to
Substring(str, from, to) ==
    SubSeq(str, from + 1, IF to < Len(str) THEN to ELSE Len(str))

Ellipsis == <<".", ".", ".">>

PreviewWholeToken(token) == token \o Ellipsis

PreviewTwenty(token) == Substring(token, 0, 20) \o Ellipsis

\* apiKeyData.apiKey.substring(0, 15) + '...'
Preview(token) == Substring(token, 0, 15) \o Ellipsis

\* notificationData
NotificationData(cred) ==
    [status |-> <<"success">>,
     message |-> <<"N8N API key created successfully">>,
     timestamp |-> <<"now">>,
     userId |-> <<"user">>,
     data |-> [n8nUrl |-> baseUrl,
               email |-> <<"operator@example.com">>,
               projectId |-> <<"project-id">>,
               projectName |-> <<"project-name">>,
               apiKeyLabel |-> <<cred.label>>,
               apiKeyCreated |-> <<cred.createdAt>>,
               apiKeyPreview |-> Preview(TokenChars(cred.apiKey))]]

SendWebhookPropagates ==
    /\ stage["notification"] = "running"
    /\ IF webhookUrl
          THEN \E r \in WebhookResponses :
                  /\ webhookCalls' = webhookCalls + 1
                  /\ payload' = NotificationData(apiKeyData)
                  /\ webhookResult' = IF WebhookDelivered(r) THEN "delivered" ELSE "failed"
                  /\ IF WebhookDelivered(r)
                        THEN Succeed("notification")
                        ELSE Fail("notification", <<"Webhook notification failed">>)
          ELSE /\ webhookResult' = "skipped"
               /\ Succeed("notification")
               /\ UNCHANGED <<webhookCalls, payload>>
    /\ UNCHANGED <<storeCalls, diagCalls, webhookUrl, env, shellVars, baseUrl, diagResult, dbRow,
                   dbKey, dbErr, dbErrAt, dbUpdatedAt, dbLabel, dbCreatedAt, storeLog, readyVars, acqVars,
                   valVars>>

\* sendWebhookNotification: nothing is sent without a URL; otherwise the
\* payload is built and POSTed, and a rejected POST is only logged.
SendWebhook ==
    /\ stage["notification"] = "running"
    /\ IF webhookUrl
          THEN \E r \in WebhookResponses :
                  /\ webhookCalls' = webhookCalls + 1
                  /\ payload' = NotificationData(apiKeyData)
                  /\ webhookResult' = IF WebhookDelivered(r) THEN "delivered" ELSE "failed"
          ELSE /\ webhookResult' = "skipped"
               /\ UNCHANGED <<webhookCalls, payload>>
    /\ Succeed("notification")
    /\ UNCHANGED <<storeCalls, diagCalls, webhookUrl, env, shellVars, baseUrl, diagResult, dbRow,
                   dbKey, dbErr, dbErrAt, dbUpdatedAt, dbLabel, dbCreatedAt, storeLog, readyVars, acqVars,
                   valVars>>

----------------------------------------------------------------------------
(* run(): return, catch block; main(): exit status                         *)

\* run() returns its result and main() calls process.exit(0).
RunReturns ==
    /\ rc = "run"
    /\ Awaited("notification")
    /\ rc' = "exit"
    /\ exitCode' = 0
    /\ UNCHANGED <<stage, runError, readyVars, acqVars, valVars, ioVars>>

RecordErrorClearsKey ==
    /\ rc = "catch"
    /\ diagCalls' = diagCalls + 1
    /\ \E dbOk \in BOOLEAN :
          /\ diagResult' = IF dbOk THEN "ok" ELSE "failed"
          /\ dbErr' = IF dbOk /\ dbRow THEN runError ELSE dbErr
          /\ dbErrAt' = IF dbOk /\ dbRow THEN Now + 1 ELSE dbErrAt
          /\ dbUpdatedAt' = IF dbOk /\ dbRow THEN Now + 1 ELSE dbUpdatedAt
          /\ dbKey' = IF dbOk /\ dbRow THEN NoKey ELSE dbKey
    /\ rc' = "rethrow"
    /\ UNCHANGED <<stage, runError, exitCode, storeCalls, webhookCalls, webhookUrl, env,
                   shellVars, baseUrl, webhookResult, payload, dbRow, dbLabel,
                   dbCreatedAt, storeLog, readyVars, acqVars, valVars>>

RecordErrorReplaces ==
    /\ rc = "catch"
    /\ diagCalls' = diagCalls + 1
    /\ \E dbOk \in BOOLEAN :
          /\ diagResult' = IF dbOk THEN "ok" ELSE "failed"
          /\ dbErr' = IF dbOk /\ dbRow THEN runError ELSE dbErr
          /\ dbErrAt' = IF dbOk /\ dbRow THEN Now + 1 ELSE dbErrAt
          /\ dbUpdatedAt' = IF dbOk /\ dbRow THEN Now + 1 ELSE dbUpdatedAt
          /\ runError' = IF dbOk THEN runError ELSE <<"Failed to record error in database">>
    /\ rc' = "rethrow"
    /\ UNCHANGED <<stage, exitCode, storeCalls, webhookCalls, webhookUrl, env, shellVars, baseUrl, webhookResult, payload,
                   dbRow, dbKey, dbLabel, dbCreatedAt, storeLog, readyVars, acqVars,
                   valVars>>

\* catch (error) in run(): one update of the error fields, whose failure is
\* swallowed, then throw error.  this.supabase is set whenever run() is
\* reached: the constructor throws when SUPABASE_URL or the service key is
\* missing.
RecordError ==
    /\ rc = "catch"
    /\ diagCalls' = diagCalls + 1
    /\ \E dbOk \in BOOLEAN :
          /\ diagResult' = IF dbOk THEN "ok" ELSE "failed"
          /\ dbErr' = IF dbOk /\ dbRow THEN runError ELSE dbErr
          /\ dbErrAt' = IF dbOk /\ dbRow THEN Now + 1 ELSE dbErrAt
          /\ dbUpdatedAt' = IF dbOk /\ dbRow THEN Now + 1 ELSE dbUpdatedAt
    /\ rc' = "rethrow"
    /\ UNCHANGED <<stage, runError, exitCode, storeCalls, webhookCalls, webhookUrl, env, shellVars, baseUrl, webhookResult, payload,
                   dbRow, dbKey, dbLabel, dbCreatedAt, storeLog, readyVars, acqVars,
                   valVars>>

MainCatchExitsZero ==
    /\ rc = "rethrow"
    /\ rc' = "exit"
    /\ exitCode' = 0
    /\ UNCHANGED <<stage, runError, readyVars, acqVars, valVars, ioVars>>

\* catch (error) in main(): process.exit(1)
MainCatch ==
    /\ rc = "rethrow"
    /\ rc' = "exit"
    /\ exitCode' = 1
    /\ UNCHANGED <<stage, runError, readyVars, acqVars, valVars, ioVars>>

----------------------------------------------------------------------------

\* The state of the node program at process start, before main() runs.
InitProgram ==
    /\ baseUrl = <<>>
    /\ payload = NoPayload
    /\ stage = [s \in StageSet |-> "idle"]
    /\ runError = NoError
    /\ exitCode = -1
    /\ rpc = "none"
    /\ i = 0
    /\ ep = 1
    /\ healthCheckPassed = FALSE
    /\ probes = 0
    /\ delays = 0
    /\ settleMs = 0
    /\ lastHealth = NoResponse
    /\ roundLog = <<>>
    /\ loginProbe = NoResponse
    /\ apc = "none"
    /\ sessionCalls = 0
    /\ browserCalls = 0
    /\ sessionError = NoError
    /\ browserError = NoError
    /\ apiKeyData = NoCredential
    /\ browserOpen = FALSE
    /\ closeCalls = 0
    /\ screenshotCalls = 0
    /\ pendingKey = 0
    /\ ExtractionNotStarted
    /\ browserLaunched = FALSE
    /\ emailInput = "null"
    /\ passwordInput = "null"
    /\ emailCandidate = FALSE
    /\ passwordCandidate = FALSE
    /\ typed = <<>>
    /\ currentUrl = "about:blank"
    /\ errorShown = FALSE
    /\ loginPosts = 0
    /\ createPosts = 0
    /\ lastLogin = NoReply
    /\ lastCreate = NoReply
    /\ submittedLabel = NoLabel
    /\ pageOpened = FALSE
    /\ screenshotFailed = FALSE
    /\ webhookResult = "none"
    /\ diagResult = "none"
    /\ vi = 0
    /\ vreq = <<>>
    /\ vresp = <<>>
    /\ isValid = "unknown"
    /\ storeCalls = 0
    /\ diagCalls = 0
    /\ webhookCalls = 0
    /\ webhookUrl \in BOOLEAN
    /\ dbRow \in BOOLEAN
    /\ dbKey \in (IF dbRow THEN {NoKey, OldKey} ELSE {NoKey})
    /\ dbLabel = (IF dbKey = OldKey THEN "API-user-t0" ELSE "")
    /\ dbCreatedAt = (IF dbKey = OldKey THEN "t0" ELSE "")
    /\ dbErr = NoError
    /\ dbErrAt = NoTime
    /\ dbUpdatedAt = NoTime
    /\ storeLog = <<>>

Init ==
    /\ rc = "new"
    /\ env \in Environments
    /\ ShellWaitsForNode
    /\ InitProgram

----------------------------------------------------------------------------
(* storeAPIKeyInSupabase applied repeatedly to the same user's record: the *)
(* job runs once per deployment and the record outlives each run.  The     *)
(* state before each call is that of a run whose validation has passed.    *)

MaxStores == 3

\* Credential records handed to the store by successive invocations.
StoreArguments ==
    {[apiKey |-> 21, label |-> "API-user-t1", createdAt |-> "t1", method |-> "session"],
     [apiKey |-> 64, label |-> "API-user-t2", createdAt |-> "t2", method |-> "session"]}

InitStore ==
    /\ rc = "run"
    /\ stage = [s \in StageSet |->
                  IF s \in {"persistence", "notification"} THEN "idle" ELSE "ok"]
    /\ runError = NoError
    /\ exitCode = -1
    /\ rpc = "none"
    /\ i = 0
    /\ ep = 1
    /\ healthCheckPassed = FALSE
    /\ probes = 0
    /\ delays = 0
    /\ settleMs = 0
    /\ lastHealth = NoResponse
    /\ roundLog = <<>>
    /\ loginProbe = NoResponse
    /\ apc = "none"
    /\ sessionCalls = 1
    /\ browserCalls = 0
    /\ sessionError = NoError
    /\ browserError = NoError
    /\ apiKeyData \in StoreArguments
    /\ browserOpen = FALSE
    /\ closeCalls = 0
    /\ screenshotCalls = 0
    /\ pendingKey = 0
    /\ ExtractionNotStarted
    /\ browserLaunched = FALSE
    /\ emailInput = "null"
    /\ passwordInput = "null"
    /\ emailCandidate = FALSE
    /\ passwordCandidate = FALSE
    /\ typed = <<>>
    /\ currentUrl = "about:blank"
    /\ errorShown = FALSE
    /\ loginPosts = 1
    /\ createPosts = 1
    /\ lastLogin = [status |-> 200, cookie |-> TRUE]
    /\ lastCreate = [status |-> 201, key |-> apiKeyData.apiKey]
    /\ submittedLabel = apiKeyData.label
    /\ pageOpened = FALSE
    /\ screenshotFailed = FALSE
    /\ webhookResult = "none"
    /\ diagResult = "none"
    /\ vi = 2
    /\ vreq = <<testEndpoints[1]>>
    /\ vresp = <<200>>
    /\ isValid = "true"
    /\ storeCalls = 0
    /\ diagCalls = 0
    /\ webhookCalls = 0
    /\ webhookUrl = FALSE
    /\ env = ValidEnv
    /\ baseUrl = Url(0)
    /\ payload = NoPayload
    /\ ShellWaitsForNode
    /\ dbRow \in BOOLEAN
    /\ dbKey \in (IF dbRow THEN {NoKey, OldKey} ELSE {NoKey})
    /\ dbLabel = (IF dbKey = OldKey THEN "API-user-t0" ELSE "")
    /\ dbCreatedAt = (IF dbKey = OldKey THEN "t0" ELSE "")
    /\ dbErr = NoError
    /\ dbErrAt = NoTime
    /\ dbUpdatedAt = NoTime
    /\ storeLog = <<>>

\* The next invocation reaches step 4 with its own credential.
StoreAgain ==
    /\ stage["persistence"] \in {"ok", "failed"}
    /\ storeCalls < MaxStores
    /\ stage' = [stage EXCEPT !["persistence"] = "idle"]
    /\ rc' = "run"
    /\ runError' = NoError
    /\ \E c \in StoreArguments :
          /\ apiKeyData' = c
          /\ lastCreate' = [status |-> 201, key |-> c.apiKey]
          /\ submittedLabel' = c.label
    /\ UNCHANGED <<exitCode, apc, sessionCalls, browserCalls, sessionError,
                   browserError, browserOpen, browserLaunched, closeCalls, screenshotCalls,
                   pendingKey, pageVars, readyVars, valVars, ioVars, loginPosts,
                   createPosts, lastLogin, loginVars,
                   extractVars>>

----------------------------------------------------------------------------
(* The login phase of createAPIKeyViaBrowser, from the selector loops to   *)
(* the check of the post-login URL, step by step.  The state before it is  *)
(* that of a run whose session method failed and whose browser, page and   *)
(* sign-in form are up.                                                    *)

emailSelectors ==
    <<"input[name=email]", "input[type=email]", "input[placeholder*=email]",
      "input[data-test-id=email]", ".n8n-input input[type=email]", "#email">>

passwordSelectors ==
    <<"input[name=password]", "input[type=password]", "input[placeholder*=password]",
      "input[data-test-id=password]", ".n8n-input input[type=password]", "#password">>

\* What one round of the selector loop can meet: page.$ throws, returns
\* null, returns an element that isVisible() reports hidden or visible, or
\* returns an element and isVisible() throws.
SelectorOutcomes == {"throws", "null", "hidden", "visible", "unknown"}

\* The outcomes of one pass over a selector list.
Scans(selectors) == [1..Len(selectors) -> SelectorOutcomes]

AnyVisible(scan) == \E k \in 1..Len(scan) : scan[k] = "visible"

RECURSIVE FindFrom(_, _, _)
\* for (const selector of selectors) { try { input = await page.$(selector);
\*   if (input && await input.isVisible()) break; } catch (e) { continue; } }
FindFrom(scan, k, input) ==
    IF k > Len(scan) THEN input
    ELSE IF scan[k] = "throws" THEN FindFrom(scan, k + 1, input)
    ELSE IF scan[k] = "visible" THEN "visible"
    ELSE FindFrom(scan, k + 1, scan[k])

\* let input = null; then the loop
FindInput(scan) == FindFrom(scan, 1, "null")

EmailNotFoundMsg == <<"Could not find email input field">>

PasswordNotFoundMsg == <<"Could not find password input field">>

\* an error thrown by puppeteer itself (click, type, press)
PuppeteerErrorMsg == <<"Node is either not visible or not an HTMLElement">>

InitLogin ==
    /\ rc = "run"
    /\ stage = [s \in StageSet |->
                  IF s = "readiness" THEN "ok"
                  ELSE IF s = "acquisition" THEN "running" ELSE "idle"]
    /\ runError = NoError
    /\ exitCode = -1
    /\ rpc = "none"
    /\ i = 0
    /\ ep = 1
    /\ healthCheckPassed = FALSE
    /\ probes = 0
    /\ delays = 0
    /\ settleMs = 0
    /\ lastHealth = NoResponse
    /\ roundLog = <<>>
    /\ loginProbe = NoResponse
    /\ apc = "email"
    /\ sessionCalls = 1
    /\ browserCalls = 1
    /\ loginPosts = 1
    /\ createPosts = 0
    /\ lastLogin = [status |-> 401, cookie |-> FALSE]
    /\ lastCreate = NoReply
    /\ submittedLabel = NoLabel
    /\ sessionError = <<"Login failed with status">>
    /\ browserError = NoError
    /\ apiKeyData = NoCredential
    /\ browserOpen = TRUE
    /\ browserLaunched = TRUE
    /\ pageOpened = TRUE
    /\ screenshotFailed = FALSE
    /\ closeCalls = 0
    /\ screenshotCalls = 0
    /\ pendingKey = 0
    /\ ExtractionNotStarted
    /\ emailInput = "null"
    /\ passwordInput = "null"
    /\ emailCandidate = FALSE
    /\ passwordCandidate = FALSE
    /\ typed = <<>>
    /\ currentUrl = "/signin"
    /\ errorShown = FALSE
    /\ webhookResult = "none"
    /\ diagResult = "none"
    /\ vi = 0
    /\ vreq = <<>>
    /\ vresp = <<>>
    /\ isValid = "unknown"
    /\ storeCalls = 0
    /\ diagCalls = 0
    /\ webhookCalls = 0
    /\ webhookUrl \in BOOLEAN
    /\ env = ValidEnv
    /\ baseUrl = Url(0)
    /\ payload = NoPayload
    /\ ShellWaitsForNode
    /\ dbRow = TRUE
    /\ dbKey = NoKey
    /\ dbLabel = ""
    /\ dbCreatedAt = ""
    /\ dbErr = NoError
    /\ dbErrAt = NoTime
    /\ dbUpdatedAt = NoTime
    /\ storeLog = <<>>

\* what the login steps leave alone
LoginFrame ==
    UNCHANGED <<sessionCalls, browserCalls, sessionError, apiKeyData, browserOpen,
                browserLaunched, closeCalls, screenshotCalls, pendingKey, pageVars,
                sessVars, extractVars, stage, topVars, readyVars, valVars, ioVars>>

\* A step of the walkthrough throws: control goes to the catch block.
StepThrows(msg) ==
    /\ browserError' = msg
    /\ apc' = "screenshot"

\* Lines 256-287: the e-mail selector loop, the null check, then click,
\* Delete and type on the element the loop left in emailInput.
FillEmail ==
    /\ stage["acquisition"] = "running"
    /\ apc = "email"
    /\ \E scan \in Scans(emailSelectors), acted \in BOOLEAN :
          LET input == FindInput(scan) IN
          /\ emailInput' = input
          /\ emailCandidate' = AnyVisible(scan)
          /\ IF input = "null"
                THEN StepThrows(EmailNotFoundMsg) /\ UNCHANGED typed
             ELSE IF acted
                THEN /\ typed' = Append(typed, "email")
                     /\ apc' = "password"
                     /\ UNCHANGED browserError
             ELSE StepThrows(PuppeteerErrorMsg) /\ UNCHANGED typed
    /\ UNCHANGED <<passwordInput, passwordCandidate, currentUrl, errorShown>>
    /\ LoginFrame

\* Lines 289-320: the same for the password.
FillPassword ==
    /\ stage["acquisition"] = "running"
    /\ apc = "password"
    /\ \E scan \in Scans(passwordSelectors), acted \in BOOLEAN :
          LET input == FindInput(scan) IN
          /\ passwordInput' = input
          /\ passwordCandidate' = AnyVisible(scan)
          /\ IF input = "null"
                THEN StepThrows(PasswordNotFoundMsg) /\ UNCHANGED typed
             ELSE IF acted
                THEN /\ typed' = Append(typed, "password")
                     /\ apc' = "submit"
                     /\ UNCHANGED browserError
             ELSE StepThrows(PuppeteerErrorMsg) /\ UNCHANGED typed
    /\ UNCHANGED <<emailInput, emailCandidate, currentUrl, errorShown>>
    /\ LoginFrame

\* Where the browser can be after the form was submitted.
PostLoginUrls == {"/signin", "/login", "/home/workflows"}

\* Lines 322-377: the submit buttons whose failures are skipped, the Enter
\* fallback whose navigation failure is skipped but whose key press is
\* not, then page.url().
SubmitLogin ==
    /\ stage["acquisition"] = "running"
    /\ apc = "submit"
    /\ \E pressed \in BOOLEAN :
          IF pressed
            THEN /\ \E u \in PostLoginUrls : currentUrl' = u
                 /\ \E e \in BOOLEAN : errorShown' = e
                 /\ apc' = "verify"
                 /\ UNCHANGED browserError
            ELSE /\ StepThrows(PuppeteerErrorMsg)
                 /\ UNCHANGED <<currentUrl, errorShown>>
    /\ UNCHANGED <<emailInput, passwordInput, emailCandidate, passwordCandidate, typed>>
    /\ LoginFrame

LoginRejectedMsg == <<"Login failed - still on signin page">>

LoginRejectedOnErrorToo(url, shown) == url \in {"/signin", "/login"} \/ shown

\* currentUrl.includes('/signin') || currentUrl.includes('/login'); the
\* error elements found at lines 380-388 are only logged.
LoginRejected(url, shown) == url \in {"/signin", "/login"}

\* Lines 379-394: the verdict on the login.
VerifyLogin ==
    /\ stage["acquisition"] = "running"
    /\ apc = "verify"
    /\ IF LoginRejected(currentUrl, errorShown)
          THEN StepThrows(LoginRejectedMsg)
          ELSE apc' = "settings" /\ UNCHANGED browserError
    /\ UNCHANGED loginVars
    /\ LoginFrame

NextLogin ==
    \/ FillEmail
    \/ FillPassword
    \/ SubmitLogin
    \/ VerifyLogin
    \/ BrowserScreenshot
    \/ BrowserClose

SpecLogin == InitLogin /\ [][NextLogin]_vars

----------------------------------------------------------------------------
(* The extraction phase of createAPIKeyViaBrowser, lines 625-704, step by  *)
(* step.  The state before it is that of a run whose session method failed *)
(* and whose browser has logged in and submitted the creation form.        *)

apiKeySelectors ==
    <<"[data-test-id=api-key-value]", "input[readonly][value*=n8n_api_]",
      "code:contains(n8n_api_)", ".api-key-value", ".token-display",
      "input[type=text][readonly]", ".n8n-input input[readonly]",
      "textarea[readonly]", ".copy-text", "[class*=api-key]">>

\* What one selector can give: page.$ or evaluate throws, no element, or
\* an element whose text has `raw` characters, `len` of them left by
\* trim(), and holds 'n8n_api_' or not.
ElementOutcomes ==
    {[kind |-> "throws", raw |-> 0, len |-> 0, marker |-> FALSE],
     [kind |-> "null", raw |-> 0, len |-> 0, marker |-> FALSE],
     [kind |-> "value", raw |-> 0, len |-> 0, marker |-> FALSE],
     [kind |-> "value", raw |-> 30, len |-> 30, marker |-> FALSE],
     [kind |-> "value", raw |-> 60, len |-> 0, marker |-> FALSE],
     [kind |-> "value", raw |-> 64, len |-> 64, marker |-> FALSE],
     [kind |-> "value", raw |-> 12, len |-> 12, marker |-> TRUE],
     [kind |-> "value", raw |-> 72, len |-> 72, marker |-> TRUE]}

\* element && value && (value.includes('n8n_api_') || value.length > 50)
CandidateAccepted(o) ==
    o.kind = "value" /\ o.raw > 0 /\ (o.marker \/ o.raw > 50)

\* The token text in the page content: none, n8n_api_ and 64 hex digits,
\* n8n_api_ and 60 other letters and digits, or 64 letters and digits in
\* double quotes.
PageTexts == {"none", "hex64", "alnum60", "quoted64"}

\* apiKeyMatches: per regular expression, the texts it matches and the
\* length of matches[0].replace(/"/g, '')
apiKeyMatches ==
    <<[texts |-> {"hex64"}, len |-> 72],
      [texts |-> {"hex64", "alnum60"}, len |-> 68],
      [texts |-> {"quoted64"}, len |-> 64]>>

\* for (const regex of apiKeyMatches) { ... break; }
FirstMatch(text) ==
    LET hits == {k \in 1..Len(apiKeyMatches) : text \in apiKeyMatches[k].texts}
    IN  IF hits = {} THEN NoCandidate
        ELSE apiKeyMatches[CHOOSE k \in hits : \A j \in hits : k <= j].len

FallbackNeededWhenShort(c) == c < 20

\* if (!apiKey): null or the empty string
FallbackNeeded(c) == c = NoCandidate \/ c = 0

InitExtract ==
    /\ rc = "run"
    /\ stage = [s \in StageSet |->
                  IF s = "readiness" THEN "ok"
                  ELSE IF s = "acquisition" THEN "running" ELSE "idle"]
    /\ runError = NoError
    /\ exitCode = -1
    /\ rpc = "none"
    /\ i = 0
    /\ ep = 1
    /\ healthCheckPassed = FALSE
    /\ probes = 0
    /\ delays = 0
    /\ settleMs = 0
    /\ lastHealth = NoResponse
    /\ roundLog = <<>>
    /\ loginProbe = NoResponse
    /\ apc = "extract"
    /\ sessionCalls = 1
    /\ browserCalls = 1
    /\ loginPosts = 1
    /\ createPosts = 0
    /\ lastLogin = [status |-> 401, cookie |-> FALSE]
    /\ lastCreate = NoReply
    /\ submittedLabel \in {KeyLabel, TargetDefaultLabel}
    /\ sessionError = <<"Login failed with status">>
    /\ browserError = NoError
    /\ apiKeyData = NoCredential
    /\ browserOpen = TRUE
    /\ browserLaunched = TRUE
    /\ pageOpened = TRUE
    /\ screenshotFailed = FALSE
    /\ closeCalls = 0
    /\ screenshotCalls = 0
    /\ pendingKey = 0
    /\ xi = 1
    /\ candidate = NoCandidate
    /\ pageText \in PageTexts
    /\ pageSearched = FALSE
    /\ emailInput = "visible"
    /\ passwordInput = "visible"
    /\ emailCandidate = TRUE
    /\ passwordCandidate = TRUE
    /\ typed = <<"email", "password">>
    /\ currentUrl = "/home/workflows"
    /\ errorShown = FALSE
    /\ webhookResult = "none"
    /\ diagResult = "none"
    /\ vi = 0
    /\ vreq = <<>>
    /\ vresp = <<>>
    /\ isValid = "unknown"
    /\ storeCalls = 0
    /\ diagCalls = 0
    /\ webhookCalls = 0
    /\ webhookUrl \in BOOLEAN
    /\ env = ValidEnv
    /\ baseUrl = Url(0)
    /\ payload = NoPayload
    /\ ShellWaitsForNode
    /\ dbRow = TRUE
    /\ dbKey = NoKey
    /\ dbLabel = ""
    /\ dbCreatedAt = ""
    /\ dbErr = NoError
    /\ dbErrAt = NoTime
    /\ dbUpdatedAt = NoTime
    /\ storeLog = <<>>

\* what the extraction steps leave alone
ExtractFrame ==
    UNCHANGED <<sessionCalls, browserCalls, sessionError, apiKeyData, browserOpen,
                browserLaunched, pageOpened, closeCalls, sessVars, loginVars,
                stage, topVars, readyVars, valVars, ioVars>>

\* One round of the loop over apiKeySelectors, lines 641-658.
ExtractProbe ==
    /\ stage["acquisition"] = "running"
    /\ apc = "extract"
    /\ xi <= Len(apiKeySelectors)
    /\ candidate = NoCandidate
    /\ \E o \in ElementOutcomes :
          IF CandidateAccepted(o)
            THEN candidate' = o.len /\ UNCHANGED xi
            ELSE xi' = xi + 1 /\ UNCHANGED candidate
    /\ UNCHANGED <<apc, pageText, pageSearched, pendingKey, screenshotCalls,
                   screenshotFailed, browserError>>
    /\ ExtractFrame

\* Lines 660-704: the search of the page content when apiKey is empty, the
\* length check with its own screenshot, and the return.
ExtractFinish ==
    /\ stage["acquisition"] = "running"
    /\ apc = "extract"
    /\ candidate # NoCandidate \/ xi > Len(apiKeySelectors)
    /\ pageSearched' = FallbackNeeded(candidate)
    /\ LET apiKey == IF FallbackNeeded(candidate) THEN FirstMatch(pageText)
                     ELSE candidate
       IN  IF BrowserKeyUsable(apiKey)
             THEN /\ pendingKey' = apiKey
                  /\ apc' = "close"
                  /\ UNCHANGED <<browserError, screenshotCalls, screenshotFailed>>
             ELSE /\ screenshotCalls' = screenshotCalls + 1
                  /\ \E saved \in BOOLEAN :
                        screenshotFailed' = (screenshotFailed \/ ~saved)
                  /\ browserError' = ExtractFailedMsg
                  /\ apc' = "screenshot"
                  /\ UNCHANGED pendingKey
    /\ UNCHANGED <<xi, candidate, pageText>>
    /\ ExtractFrame

NextExtract ==
    \/ ExtractProbe
    \/ ExtractFinish
    \/ BrowserScreenshot
    \/ BrowserClose

SpecExtract == InitExtract /\ [][NextExtract]_vars

----------------------------------------------------------------------------
(* The user's record across successive invocations of the job, each ending *)
(* in a store or, when the store fails, in the error update of run().      *)

\* The job is started again once the previous invocation has left run().
RunAgain ==
    /\ rc # "catch"
    /\ StoreAgain

NextRecord ==
    \/ StartStore
    \/ StoreUpdate
    \/ RecordError
    \/ RunAgain

SpecRecord == InitStore /\ [][NextRecord]_vars

----------------------------------------------------------------------------

NextStore ==
    \/ StartStore
    \/ StoreUpdate
    \/ StoreAgain

SpecStore == InitStore /\ [][NextStore]_vars

----------------------------------------------------------------------------

Next ==
    \/ Construct
    \/ StartReadiness
    \/ ProbeHealth
    \/ EndRound
    \/ ProbeLogin
    \/ SettleAndReturn
    \/ ReadinessTimeout
    \/ StartAcquisition
    \/ SessionLogin
    \/ SessionCreate
    \/ BrowserLaunch
    \/ BrowserWalk
    \/ BrowserScreenshot
    \/ BrowserClose
    \/ StartValidation
    \/ ValidatePrecheck
    \/ ValidateProbe
    \/ ValidateExhausted
    \/ ValidationReturn
    \/ StartStore
    \/ StoreUpdate
    \/ StartNotify
    \/ SendWebhook
    \/ RunReturns
    \/ RecordError
    \/ MainCatch

Spec == Init /\ [][Next]_vars

----------------------------------------------------------------------------
(* The node program with termination signals: the handlers are registered   *)
(* when the module is loaded, before main() is called.                      *)

Signals == {"SIGTERM", "SIGINT"}

\* process.on('SIGTERM' | 'SIGINT', () => { ...; process.exit(0); }): the
\* handler runs between two steps of the pipeline, whatever stage is
\* awaited, and ends the process at once.
SignalHandler ==
    /\ rc \in {"new", "run", "catch", "rethrow"}
    /\ \E sig \in Signals :
          /\ rc' = "exit"
          /\ exitCode' = 0
    /\ UNCHANGED <<stage, runError, readyVars, acqVars, valVars, ioVars>>

\* a run with a complete configuration
InitSignal ==
    /\ rc = "new"
    /\ env = ValidEnv
    /\ ShellWaitsForNode
    /\ InitProgram

NextSignal == Next \/ SignalHandler

SpecSignal == InitSignal /\ [][NextSignal]_vars

----------------------------------------------------------------------------
(* The node program followed by the rest of setup-api.sh: the check for a   *)
(* stored token when node failed, then the validation and the final         *)
(* reports, none of which can fail the script.                              *)

ShellTailFrame ==
    UNCHANGED <<rc, stage, runError, exitCode, readyVars, acqVars, valVars, storeCalls,
                diagCalls, webhookCalls, webhookUrl, dbRow, dbKey, dbErr, dbErrAt,
                dbUpdatedAt, dbLabel, dbCreatedAt, storeLog, env, baseUrl, payload,
                webhookResult, diagResult, counter, n8nReady, attempt,
                loginEndpointReady>>

\* if timeout 900 node /app/scripts/create-api-key.js 2>&1 | tee ...; then
\* ... else ... fi, reached when the node process has exited.
ShellAfterNode ==
    /\ shpc = "node"
    /\ rc = "exit"
    /\ shpc' = IF exitCode = 0 THEN "validate" ELSE "partial"
    /\ UNCHANGED shExit
    /\ ShellTailFrame

\* if (error) exit(1);  data && data.n8n_api_key && data.n8n_api_key.length > 10
PartialSuccessAccepted(found, key) == found /\ key # NoKey /\ key > 10

\* "Checking for partial success": node -e selects n8n_api_key of the user's
\* record with .single(), which answers an error when the query fails or
\* no row matches; exit 1 unless a token is found.
ShellPartialCheck ==
    /\ shpc = "partial"
    /\ \E dbOk \in BOOLEAN :
          IF PartialSuccessAccepted(dbOk /\ dbRow, dbKey)
            THEN shpc' = "validate" /\ UNCHANGED shExit
            ELSE shpc' = "exit" /\ shExit' = 1
    /\ ShellTailFrame

\* validate-credentials.js, the removal of the logs, the final health check,
\* database verification and API test: each sits in an if/else that only
\* prints, and the script ends with status 0.
ShellFinish ==
    /\ shpc = "validate"
    /\ shpc' = "exit"
    /\ shExit' = 0
    /\ ShellTailFrame

NextWrapper ==
    \/ Next
    \/ ShellAfterNode
    \/ ShellPartialCheck
    \/ ShellFinish

SpecWrapper == InitSignal /\ [][NextWrapper]_vars

----------------------------------------------------------------------------
(* The wrapper followed by the node program, with progress: each step is   *)
(* eventually taken because every network call and UI wait returns or      *)
(* times out.                                                              *)

\* The wrapper has validated the environment before its loops.
InitLive ==
    /\ rc = "shell"
    /\ env \in {ValidEnv, [ValidEnv EXCEPT !.emailOk = FALSE]}
    /\ ShellStarts
    /\ InitProgram

NextLive == NextShell \/ Next

SpecLive == InitLive /\ [][NextLive]_vars /\ WF_vars(NextLive)

----------------------------------------------------------------------------
(* Properties                                                              *)

\* sub occurs in msg as a contiguous run of message parts
Contains(msg, sub) ==
    \E k \in 0..(Len(msg) - Len(sub)) :
        \A j \in 1..Len(sub) : msg[k + j] = sub[j]

Decisive == {200, 401, 403}

Unreachable == {ConnFail, Timeout}

\* the first decisive response of a response sequence is at position k
FirstDecisiveAt(resp, k) ==
    /\ k \in 1..Len(resp)
    /\ resp[k] \in Decisive
    /\ \A j \in 1..(k - 1) : resp[j] \notin Decisive

\* validateAPIKey has reached its verdict by probing endpoints
VerdictByProbing == isValid # "unknown" /\ vi >= 1

\* C1: the stages run strictly in the order readiness, acquisition,
\* validation, persistence, notification: a stage has started only if the
\* stage before it completed successfully, and at most one stage is in
\* progress at any time.
C1_StagesStrictlyOrdered ==
    /\ \A k \in 2..Len(Stages) :
          stage[Stages[k]] # "idle" => stage[Stages[k - 1]] = "ok"
    /\ Cardinality({s \in StageSet : stage[s] = "running"}) <= 1

C1_Witness ==
    /\ stage["notification"] = "running"
    /\ \A k \in 1..4 : stage[Stages[k]] = "ok"

C3_BothFailCombinedError ==
    (browserError # NoError /\ apc = "none") =>
        /\ sessionError # NoError
        /\ stage["acquisition"] = "failed"
        /\ rc # "run"
        /\ Contains(runError, sessionError)
        /\ Contains(runError, browserError)
        /\ sessionCalls = 1
        /\ browserCalls = 1

C3_Witness ==
    /\ rc = "exit"
    /\ stage["acquisition"] = "failed"
    /\ sessionError = <<"Session API creation failed with status">>
    /\ browserError = <<"Failed to extract valid API key from page">>

\* C4: once validateAPIKey has returned false, the credential store and the
\* webhook are never called, the record never holds the new token, and the
\* run ends in failure.
C4_InvalidKeyNeverStoredNorAnnounced ==
    isValid = "false" =>
        /\ storeCalls = 0
        /\ webhookCalls = 0
        /\ dbKey \in {NoKey, OldKey}
        /\ stage["persistence"] = "idle"
        /\ stage["notification"] = "idle"
        /\ rc = "exit" => exitCode = 1

C4_Witness ==
    /\ isValid = "false"
    /\ rc = "exit"
    /\ webhookUrl
    /\ dbRow

\* C5: a 401 response is always the last response validateAPIKey receives:
\* no endpoint is requested after it, and the verdict is false.
C5_Stops401Immediately ==
    \A k \in 1..Len(vresp) :
        vresp[k] = 401 => (Len(vresp) = k /\ Len(vreq) = k /\ isValid = "false")

C5_Witness ==
    /\ rc = "exit"
    /\ Len(vresp) = 1
    /\ vresp[1] = 401

\* C6: when validateAPIKey has reached its verdict and every response it
\* received was a connection failure or a timeout, the verdict is true and
\* each of the three endpoints was requested exactly once.
C6_AllUnreachableIsValid ==
    (VerdictByProbing /\ \A k \in 1..Len(vresp) : vresp[k] \in Unreachable) =>
        /\ isValid = "true"
        /\ vreq = testEndpoints
        /\ Len(vresp) = Len(testEndpoints)

C6_Witness ==
    /\ isValid = "true"
    /\ vresp = <<Timeout, ConnFail, Timeout>>
    /\ stage["validation"] = "ok"

\* C7: for a token of usable length the endpoints are requested in the
\* fixed order, and the verdict is that of the first response among 200,
\* 401 and 403: true for 200 or 403, false for 401, true when there is
\* none; so the verdict is false exactly when the first decisive response
\* is a 401.
C7_FirstDecisiveResponseDecides ==
    /\ vreq = SubSeq(testEndpoints, 1, Len(vreq))
    /\ Len(vresp) = Len(vreq)
    /\ (VerdictByProbing /\ ~KeyTooShort(apiKeyData.apiKey)) =>
          /\ isValid = "false" <=>
                \E k \in 1..Len(vresp) : FirstDecisiveAt(vresp, k) /\ vresp[k] = 401
          /\ \A k \in 1..Len(vresp) :
                (FirstDecisiveAt(vresp, k) /\ vresp[k] \in {200, 403}) =>
                    (isValid = "true" /\ Len(vresp) = k)
    /\ (vi >= 1 /\ isValid = "unknown") =>
          \A k \in 1..Len(vresp) : vresp[k] \notin Decisive

C7_Witness ==
    /\ vresp = <<404, ConnFail, 401>>
    /\ isValid = "false"
    /\ stage["validation"] = "failed"

\* C8: the run fails at the validation stage only if some validation
\* endpoint answered 401; in particular the length pre-check of
\* validateAPIKey rejects no credential returned by either acquirer.
C8_ValidationFailsOnlyOn401 ==
    /\ (stage["validation"] = "failed" \/ isValid = "false"
          \/ runError = ValidationFailedMsg) =>
          \E k \in 1..Len(vresp) : vresp[k] = 401
    /\ stage["acquisition"] = "ok" => ~KeyTooShort(apiKeyData.apiKey)

C8_Witness ==
    /\ stage["validation"] = "failed"
    /\ runError = ValidationFailedMsg
    /\ apiKeyData.apiKey = 20
    /\ apiKeyData.method = "browser"

\* C9: while no health path has answered 200, round i has issued exactly
\* one probe per health path of every earlier round, and the readiness
\* timeout is raised after exactly maxAttempts complete rounds.
C9_TimeoutAfterExactlyMaxAttempts ==
    /\ (stage["readiness"] = "running" /\ rpc = "probe") =>
          /\ i <= maxAttempts
          /\ probes = i * Len(healthEndpoints) + (ep - 1)
    /\ stage["readiness"] = "failed" =>
          /\ i = maxAttempts
          /\ probes = maxAttempts * Len(healthEndpoints)
          /\ delays = maxAttempts - 1
          /\ runError = ReadinessTimeoutMsg

C9_Witness ==
    /\ stage["readiness"] = "failed"
    /\ rc = "exit"

\* the polling loop of waitForN8NReady ran out of rounds
BudgetExhausted == i = maxAttempts /\ rpc = "none"

\* C10 as stated: after a readiness timeout the run exits non-zero with the
\* readiness-timeout error and has made no call of any kind to the
\* persistence layer and no webhook call.
C10_NoPersistenceCallAtAll ==
    (BudgetExhausted /\ rc = "exit") =>
        /\ exitCode = 1
        /\ runError = ReadinessTimeoutMsg
        /\ storeCalls = 0
        /\ diagCalls = 0
        /\ webhookCalls = 0

\* C10 amended: after a readiness timeout no later stage starts, the
\* credential store and the webhook are never called, and the run exits
\* non-zero with the readiness-timeout error; the one call made to the
\* persistence layer is the diagnostic write of the catch block of run().
C10_NoStoreNoWebhookOneDiagnostic ==
    BudgetExhausted =>
        /\ storeCalls = 0
        /\ webhookCalls = 0
        /\ dbKey \in {NoKey, OldKey}
        /\ stage["readiness"] = "failed"
        /\ \A k \in 2..Len(Stages) : stage[Stages[k]] = "idle"
        /\ runError = ReadinessTimeoutMsg
        /\ diagCalls = (IF rc = "catch" THEN 0 ELSE 1)
        /\ rc = "exit" => exitCode = 1

C10_Witness ==
    /\ BudgetExhausted
    /\ rc = "exit"
    /\ diagCalls = 1
    /\ dbErr = ReadinessTimeoutMsg

\* waitForN8NReady returns true in this step
ReadinessReturnsTrue == stage["readiness"] = "running" /\ stage'["readiness"] = "ok"

\* C11 as stated: waitForN8NReady never returns success on the strength of
\* a round whose confirmatory probe of /rest/login failed at connection
\* level.
C11_LoginProbeFailureDisqualifies ==
    [][ReadinessReturnsTrue => loginProbe # ConnFail]_vars

\* C12: waitForN8NReady returns success only from a round whose latest
\* health response was a 200, and only by the step in which the settle
\* sleep that follows the confirmatory probe elapses.
C12_ReadyOnlyAfter200AndSettle ==
    [][ReadinessReturnsTrue =>
          /\ lastHealth = 200
          /\ healthCheckPassed
          /\ loginProbe # NoResponse
          /\ rpc = "settle"
          /\ settleMs \in {15000, 30000}]_vars

C12_Witness ==
    /\ stage["readiness"] = "ok"
    /\ stage["acquisition"] = "running"

\* outcome of the latest finished storeAPIKeyInSupabase call, "none" before
LastStoreResult ==
    IF storeLog = <<>> THEN "none" ELSE storeLog[Len(storeLog)].result

\* storeAPIKeyInSupabase returns or throws in this step
StoreFinishes == stage["persistence"] = "running" /\ stage'["persistence"] # "running"

\* C13 as stated: whenever the database answers the store without an
\* error, the store succeeds and the user's record exists and holds the
\* credential, whether or not a record existed before (upsert).
C13_UpsertInsertsWhenAbsent ==
    LastStoreResult \in {"rows", "norows"} =>
        /\ stage["persistence"] = "ok"
        /\ dbRow
        /\ dbKey = apiKeyData.apiKey

\* C13 amended: the store is update-only.  No step creates or deletes the
\* user's record; a store that the database answers without error succeeds
\* and overwrites the credential fields when the record exists, and fails
\* with "No user found with ID", leaving everything as it was, when it
\* does not.
C13_UpdateOnly ==
    [][/\ dbRow' = dbRow
       /\ StoreFinishes =>
             LET result == storeLog'[Len(storeLog')].result IN
             /\ Len(storeLog') = Len(storeLog) + 1
             /\ (result = "rows") => 
                   /\ dbRow
                   /\ stage'["persistence"] = "ok"
                   /\ dbKey' = apiKeyData.apiKey
                   /\ dbLabel' = apiKeyData.label
                   /\ dbCreatedAt' = apiKeyData.createdAt
             /\ (result = "norows") =>
                   /\ ~dbRow
                   /\ stage'["persistence"] = "failed"
                   /\ runError' = <<"No user found with ID">>
                   /\ UNCHANGED <<dbKey, dbLabel, dbCreatedAt>>
             /\ (result = "dberror") => UNCHANGED <<dbKey, dbLabel, dbCreatedAt>>]_vars

C13_Witness ==
    /\ ~dbRow
    /\ LastStoreResult = "norows"
    /\ stage["persistence"] = "failed"
    /\ rc = "exit"

\* C15: the store has returned normally only if its update returned at
\* least one row, and then the record holds the credential; an update that
\* returned no row or an error has made the store fail, so that the run
\* never reaches notification and exits non-zero.
C15_StoredOnlyWithAffectedRows ==
    /\ stage["persistence"] = "ok" =>
          /\ LastStoreResult = "rows"
          /\ dbRow
          /\ dbKey = apiKeyData.apiKey
    /\ LastStoreResult \in {"norows", "dberror"} =>
          /\ stage["persistence"] = "failed"
          /\ stage["notification"] = "idle"
          /\ rc # "run"
          /\ rc = "exit" => exitCode = 1

C15_Witness ==
    /\ LastStoreResult = "norows"
    /\ stage["persistence"] = "failed"
    /\ rc = "exit"

\* C16: a database error answered to the credential store is thrown to
\* run(): the persistence stage fails with that error, the notification
\* stage never starts, no webhook call is made and the exit status is 1.
C16_DatabaseErrorIsFatal ==
    LastStoreResult = "dberror" =>
        /\ stage["persistence"] = "failed"
        /\ runError = <<"Supabase update error">>
        /\ rc # "run"
        /\ stage["notification"] = "idle"
        /\ webhookCalls = 0
        /\ rc = "exit" => exitCode = 1

C16_Witness ==
    /\ LastStoreResult = "dberror"
    /\ webhookUrl
    /\ dbRow
    /\ rc = "exit"

\* the credential fields of the user's record are those of credential c
RecordHolds(c) ==
    /\ dbKey = c.apiKey
    /\ dbLabel = c.label
    /\ dbCreatedAt = c.createdAt

\* C14 as stated: after two or more stores that the database answered
\* without error, the user has a record and its token, label and
\* created-at are those of the latest call.
C14_LatestStoreAlwaysInRecord ==
    (Len(storeLog) >= 2 /\ LastStoreResult # "dberror") =>
        /\ dbRow
        /\ RecordHolds(storeLog[Len(storeLog)].cred)

\* C14 amended: when the user's record exists, after any number of stores
\* of which the latest was answered without error, the record holds the
\* token, label and created-at of the latest call and nothing of the
\* earlier ones, whether the earlier calls stored the same value or
\* another one; when no record exists every store fails and none appears.
C14_ExistingRecordHoldsLatestStore ==
    /\ (storeLog # <<>> /\ dbRow /\ LastStoreResult # "dberror") =>
          /\ LastStoreResult = "rows"
          /\ RecordHolds(storeLog[Len(storeLog)].cred)
    /\ ~dbRow =>
          /\ dbKey = NoKey
          /\ \A k \in 1..Len(storeLog) : storeLog[k].result # "rows"

C14_Witness ==
    /\ Len(storeLog) = 2
    /\ storeLog[1].result = "rows"
    /\ storeLog[2].result = "rows"
    /\ storeLog[1].cred.apiKey = 21
    /\ storeLog[2].cred.apiKey = 64
    /\ dbKey = 64
    /\ dbLabel = "API-user-t2"

\* C17: a failed webhook POST (timeout, connection error, non-2xx status)
\* is swallowed: the notification step never fails, the run has no error,
\* and a run whose credential was stored exits with status 0; without a
\* webhook URL no POST is made.
C17_WebhookFailureNeverFailsRun ==
    /\ stage["notification"] # "failed"
    /\ webhookResult = "failed" =>
          /\ stage["notification"] = "ok"
          /\ runError = NoError
          /\ rc \in {"run", "exit"}
    /\ (stage["persistence"] = "ok" /\ rc = "exit") => exitCode = 0
    /\ ~webhookUrl => (webhookCalls = 0 /\ webhookResult \in {"none", "skipped"})

C17_Witness ==
    /\ webhookResult = "failed"
    /\ webhookCalls = 1
    /\ dbKey = apiKeyData.apiKey
    /\ rc = "exit"
    /\ exitCode = 0

FailedStages == {s \in StageSet : stage[s] = "failed"}

\* The error the failed stage threw into run()'s catch block.
OriginalError ==
    IF stage["readiness"] = "failed" THEN ReadinessTimeoutMsg
    ELSE IF stage["acquisition"] = "failed" THEN CombinedError(sessionError, browserError)
    ELSE IF stage["validation"] = "failed" THEN ValidationFailedMsg
    ELSE StoreErrorMsg(LastStoreResult)

\* C18: a failed pipeline stage is followed by exactly one diagnostic write
\* (attempted in the catch block, before the exit); whether or not that
\* write succeeds, the error propagated is the stage's own error and the
\* exit status is 1.
C18_OneDiagnosticWriteOutcomeKept ==
    /\ diagCalls <= 1
    /\ FailedStages # {} =>
          /\ rc \in {"catch", "rethrow", "exit"}
          /\ diagCalls = (IF rc = "catch" THEN 0 ELSE 1)
          /\ rc = "catch" => diagResult = "none"
          /\ rc # "catch" => diagResult \in {"ok", "failed"}
          /\ runError = OriginalError
          /\ runError # NoError
          /\ rc = "exit" => exitCode = 1

C18_Witness ==
    /\ stage["persistence"] = "failed"
    /\ diagResult = "failed"
    /\ diagCalls = 1
    /\ rc = "exit"
    /\ exitCode = 1

\* run() got through step 4: the credential is stored.
StoredThrough ==
    \A s \in {"readiness", "acquisition", "validation", "persistence"} : stage[s] = "ok"

ConfigurationRejected == stage["readiness"] = "idle" /\ rc \in {"rethrow", "exit"}

\* C19: without a termination signal the process exits with 0 exactly when
\* every stage through the credential store succeeded, whatever the
\* notification did; a rejected configuration or a failed readiness,
\* acquisition, validation or persistence stage exits with 1.
C19_ExitZeroIffStored ==
    /\ rc = "exit" =>
          /\ exitCode \in {0, 1}
          /\ exitCode = 0 <=> StoredThrough
          /\ (ConfigurationRejected \/ FailedStages # {}) => exitCode = 1
    /\ rc # "exit" => exitCode = -1
    /\ ValidateEnvironment(env) # <<>> => rc \in {"new", "rethrow", "exit"}

C19_Witness ==
    /\ rc = "exit"
    /\ exitCode = 0
    /\ StoredThrough
    /\ apiKeyData.method = "browser"
    /\ webhookResult = "delivered"

C19_WitnessConfiguration ==
    /\ rc = "exit"
    /\ exitCode = 1
    /\ env.missing = {"USER_ID"}
    /\ runError = <<"Missing required environment variables", "USER_ID">>

\* createAPIKeyViaBrowser has been called and has returned or thrown
BrowserFinished == browserCalls = 1 /\ apc = "none"

\* browser.close() was attempted and raised: the browser is still open
CloseFailed == closeCalls = 1 /\ browserOpen

\* C20: on every exit path of createAPIKeyViaBrowser a launched browser has
\* had browser.close() attempted exactly once, never before the function is
\* about to leave, and a close that raised leaves the function's result
\* (the extracted credential) or its original error in place.
C20_BrowserClosedOnEveryExit ==
    /\ closeCalls <= 1
    /\ apc \in {"launch", "walk", "screenshot", "close"} => closeCalls = 0
    /\ BrowserFinished =>
          /\ closeCalls = (IF browserLaunched THEN 1 ELSE 0)
          /\ ~browserLaunched => ~browserOpen
          /\ IF browserError = NoError
                THEN /\ stage["acquisition"] = "ok"
                     /\ apiKeyData = Credential(pendingKey, "browser")
                ELSE /\ stage["acquisition"] = "failed"
                     /\ runError = CombinedError(sessionError, browserError)

C20_Witness ==
    /\ BrowserFinished
    /\ CloseFailed
    /\ browserError = <<"Could not find API key creation button">>
    /\ stage["acquisition"] = "failed"

C20_WitnessCloseFailedOnSuccess ==
    /\ BrowserFinished
    /\ CloseFailed
    /\ browserError = NoError
    /\ apiKeyData.apiKey = 64

\* createAPIKeyViaBrowser has thrown
BrowserThrew == BrowserFinished /\ browserError # NoError

\* The errors the steps of createAPIKeyViaBrowser themselves throw.
BrowserOwnErrors ==
    BrowserStepErrors \cup
    {ExtractFailedMsg, <<"Failed to launch the browser process">>,
     <<"Failed to open a new page">>}

\* C21 as stated: whatever step of the browser acquisition failed, a
\* screenshot has been attempted by the time the error is propagated.
C21_ScreenshotOnAnyFailure ==
    BrowserThrew => screenshotCalls >= 1

\* C21 amended: a screenshot is attempted exactly when the failure happens
\* after the page was opened (a failed launch or newPage leaves no page to
\* capture); a screenshot that fails leaves the step's own error as the one
\* thrown to run().
C21_ScreenshotWhenPageOpen ==
    /\ ~pageOpened => (screenshotCalls = 0 /\ ~screenshotFailed)
    /\ BrowserThrew =>
          /\ screenshotCalls >= 1 <=> pageOpened
          /\ browserError \in BrowserOwnErrors
          /\ runError = CombinedError(sessionError, browserError)
    /\ (BrowserFinished /\ browserError = NoError) => screenshotCalls = 0

C21_Witness ==
    /\ BrowserThrew
    /\ pageOpened
    /\ screenshotFailed
    /\ screenshotCalls = 1
    /\ browserError = <<"Login failed - still on signin page">>
    /\ rc = "exit"

C21_WitnessNoPage ==
    /\ BrowserThrew
    /\ browserLaunched
    /\ ~pageOpened
    /\ screenshotCalls = 0

\* createAPIKeyViaSession has been called and has returned or thrown
SessionFinished == sessionCalls = 1 /\ apc \notin {"login", "create"}

SessionReturned == apiKeyData.method = "session"

\* C22: one call of createAPIKeyViaSession sends at most one login POST and
\* at most one creation POST; the creation POST follows a 200 login
\* response that carried a cookie; a credential is returned only for a
\* 200/201 creation response whose token is longer than 20 characters, and
\* every other outcome is an error thrown to run(), which then calls the
\* browser method.
C22_SessionFailFast ==
    /\ loginPosts <= sessionCalls
    /\ createPosts <= loginPosts
    /\ sessionCalls <= 1
    /\ createPosts = 1 => (lastLogin.status = 200 /\ lastLogin.cookie)
    /\ SessionReturned =>
          /\ createPosts = 1
          /\ lastCreate.status \in {200, 201}
          /\ lastCreate.key > 20
          /\ apiKeyData.apiKey = lastCreate.key
          /\ sessionError = NoError
    /\ (SessionFinished /\ ~SessionReturned) =>
          /\ sessionError # NoError
          /\ browserCalls = 1
          /\ createPosts = 1 =>
                (lastCreate.status \notin {200, 201} \/ lastCreate.key <= 20)

C22_Witness ==
    /\ SessionFinished
    /\ loginPosts = 1
    /\ createPosts = 1
    /\ lastCreate = [status |-> 201, key |-> 20]
    /\ sessionError = <<"Invalid API key from session method">>
    /\ browserCalls = 1

C22_WitnessReturned ==
    /\ SessionReturned
    /\ lastCreate = [status |-> 200, key |-> 21]
    /\ browserCalls = 0

\* a required configuration value is missing
ConfigMissing(e) == e.baseUrl = "missing" \/ e.missing # {}

\* no HTTP request, database call, browser launch or webhook call so far
NoExternalActivity ==
    /\ \A s \in StageSet : stage[s] = "idle"
    /\ probes = 0
    /\ lastHealth = NoResponse
    /\ loginProbe = NoResponse
    /\ sessionCalls = 0
    /\ loginPosts = 0
    /\ createPosts = 0
    /\ browserCalls = 0
    /\ ~browserLaunched
    /\ vreq = <<>>
    /\ storeCalls = 0
    /\ storeLog = <<>>
    /\ diagCalls = 0
    /\ webhookCalls = 0
    /\ payload = NoPayload

\* C23: with a required configuration value missing the process goes from
\* the constructor straight to main()'s catch and exits with 1; no HTTP
\* request, database call, browser launch or webhook call is made.
C23_MissingConfigNoNetwork ==
    ConfigMissing(env) =>
        /\ rc \in {"new", "rethrow", "exit"}
        /\ NoExternalActivity
        /\ rc # "new" => runError # NoError
        /\ rc = "exit" => exitCode = 1

C23_Witness ==
    /\ env.missing = {"SUPABASE_SERVICE_ROLE_KEY"}
    /\ env.baseUrl = "ok"
    /\ rc = "exit"
    /\ exitCode = 1
    /\ runError = <<"Missing required environment variables", "SUPABASE_SERVICE_ROLE_KEY">>

MissingUrlMsg == <<"Missing N8N URL: Set either N8N_EDITOR_BASE_URL or N8N_URL">>

MissingHeader == "Missing required environment variables"

\* The required fields that are absent from the environment; the target
\* URL stands for N8N_EDITOR_BASE_URL || N8N_URL.
MissingFields(e) ==
    e.missing \cup (IF e.baseUrl = "missing" THEN {"N8N_URL"} ELSE {})

\* the error message names the field as missing
Identifies(msg, f) ==
    IF f = "N8N_URL"
      THEN msg = MissingUrlMsg
      ELSE msg # <<>> /\ msg[1] = MissingHeader /\ Contains(msg, <<f>>)

ConfigRejected == rc \in {"rethrow", "exit"} /\ NoExternalActivity

\* C24 as stated: whatever combination of required fields is missing, the
\* configuration error names every one of them.
C24_EveryMissingFieldIdentified ==
    (ConfigRejected /\ ConfigMissing(env)) =>
        \A f \in MissingFields(env) : Identifies(runError, f)

\* C24 amended: validateEnvironment reports the first failing check.  With
\* the target URL missing the error names the URL only; with a malformed
\* URL it reports the format; only with an accepted URL does it list every
\* missing one of the five other required fields, in the order of
\* `required` (unless createClient has already thrown).
C24_MissingListedWhenUrlAccepted ==
    (ConfigRejected /\ ConfigMissing(env) /\ runError # <<"createClient failed">>) =>
        IF env.baseUrl = "missing" THEN runError = MissingUrlMsg
        ELSE IF env.baseUrl = "malformed" THEN runError = <<"Invalid N8N URL format">>
        ELSE /\ runError = <<MissingHeader>> \o MissingList(env)
             /\ Len(runError) = 1 + Cardinality(env.missing)
             /\ \A f \in env.missing : Identifies(runError, f)

C24_Witness ==
    /\ ConfigRejected
    /\ env.baseUrl = "ok"
    /\ env.missing = {"N8N_USER_PASSWORD", "USER_ID"}
    /\ runError = <<MissingHeader, "N8N_USER_PASSWORD", "USER_ID">>
    /\ rc = "exit"

C24_WitnessUrlHidesOthers ==
    /\ ConfigRejected
    /\ env.baseUrl = "missing"
    /\ env.missing = {"USER_ID"}
    /\ runError = MissingUrlMsg

\* validateEnvironment has succeeded: the manager exists
Constructed == rc # "new" /\ ~ConfigRejected

\* `${this.baseUrl}${path}` for a path such as /healthz
RequestUrl(path) == baseUrl \o <<"/", path>>

DoubleSlash(url) == \E k \in 1..(Len(url) - 1) : url[k] = "/" /\ url[k + 1] = "/"

\* C25 as stated: once validateEnvironment has succeeded the base URL has
\* no trailing slash, whatever number of slashes the input ended in, and a
\* request URL baseUrl + path has only the path's own leading slash.
C25_BaseUrlNoTrailingSlash ==
    Constructed =>
        /\ baseUrl # <<>>
        /\ baseUrl[Len(baseUrl)] # "/"
        /\ ~DoubleSlash(RequestUrl("healthz"))

\* the token of the credential handed to the notifier
NotifiedToken == TokenChars(apiKeyData.apiKey)

WebhookSent == payload # NoPayload

\* C26: the apiKeyPreview of a payload that was sent is the first 15
\* characters of the token followed by three dots.
C26_PreviewIsFirstFifteenPlusDots ==
    WebhookSent =>
        LET preview == payload.data.apiKeyPreview IN
        /\ Len(preview) = 15 + 3
        /\ \A k \in 1..15 : preview[k] = NotifiedToken[k]
        /\ SubSeq(preview, 16, 18) = <<".", ".", ".">>

C26_Witness ==
    /\ WebhookSent
    /\ webhookCalls = 1
    /\ apiKeyData.apiKey = 20
    /\ Len(payload.data.apiKeyPreview) = 18
    /\ rc = "exit"

\* every text field of the payload
PayloadFields ==
    {payload.status, payload.message, payload.timestamp, payload.userId}
    \cup {payload.data[f] : f \in DOMAIN payload.data}

\* C27: a payload that was sent holds the token in none of its fields: the
\* token is longer than 15 characters, so the preview carries a strict
\* prefix of it.
C27_PayloadNeverHoldsToken ==
    WebhookSent =>
        /\ Len(NotifiedToken) > 15
        /\ Len(NotifiedToken) >= 20
        /\ \A field \in PayloadFields : ~Contains(field, NotifiedToken)
        /\ SubSeq(payload.data.apiKeyPreview, 1, 15) = SubSeq(NotifiedToken, 1, 15)

C27_Witness ==
    /\ WebhookSent
    /\ apiKeyData.apiKey = 64
    /\ apiKeyData.method = "browser"
    /\ webhookResult = "delivered"

HasTyped(field) == \E k \in 1..Len(typed) : typed[k] = field

EmailStepDone == apc # "email"

PasswordStepDone == HasTyped("email") /\ apc # "password"

\* C28 as stated: the e-mail and the password are typed into a visible
\* element found by the selector list, and when no selector of a list yields
\* a visible element the acquisition fails with that field's "not found"
\* error with nothing typed into the field.
C28_TypedIntoVisibleOrNotFound ==
    /\ HasTyped("email") => emailInput = "visible"
    /\ HasTyped("password") => passwordInput = "visible"
    /\ (EmailStepDone /\ ~emailCandidate) =>
          (browserError = EmailNotFoundMsg /\ ~HasTyped("email"))
    /\ (PasswordStepDone /\ ~passwordCandidate) =>
          (browserError = PasswordNotFoundMsg /\ ~HasTyped("password"))

SigninUrls == {"/signin", "/login"}

\* the check of the post-login URL has been made
VerifyDone ==
    /\ Len(typed) = 2
    /\ apc \notin {"submit", "verify"}
    /\ browserError # PuppeteerErrorMsg

\* C29 as stated: the login is rejected when the URL after the submit is
\* still a sign-in URL or when an error-styled element is on the page; the
\* walkthrough goes on to the settings only when neither holds.
C29_ErrorElementOrSigninUrlRejects ==
    /\ apc = "settings" => (currentUrl \notin SigninUrls /\ ~errorShown)
    /\ (VerifyDone /\ (currentUrl \in SigninUrls \/ errorShown)) =>
          browserError = LoginRejectedMsg

\* C29 amended: the login is rejected exactly when the URL after the submit
\* still contains /signin or /login; an error-styled element is logged and
\* has no effect on the verdict.
C29_SigninUrlAloneRejects ==
    /\ apc = "settings" =>
          /\ currentUrl \notin SigninUrls
          /\ browserError = NoError
          /\ typed = <<"email", "password">>
    /\ browserError = LoginRejectedMsg => currentUrl \in SigninUrls
    /\ VerifyDone => (browserError = LoginRejectedMsg <=> currentUrl \in SigninUrls)
    /\ VerifyDone => (browserError = NoError <=> apc = "settings")

C29_Witness ==
    /\ apc = "settings"
    /\ errorShown
    /\ currentUrl = "/home/workflows"
    /\ browserError = NoError

C29_WitnessRejected ==
    /\ VerifyDone
    /\ currentUrl = "/login"
    /\ ~errorShown
    /\ browserError = LoginRejectedMsg
    /\ stage["acquisition"] = "failed"

\* the wrapper has exited, or the node program has
Terminated == shpc = "exit" \/ rc = "exit"

\* the wrapper's readiness loop used up its 60 rounds
ShellReadinessExhausted == counter = ShellTimeout /\ ~n8nReady

\* the wrapper's login endpoint loop used up its 5 attempts
ShellLoginAttemptsExhausted ==
    attempt = LoginTestAttempts /\ ~loginEndpointReady /\ shpc # "loginprobe"

\* The loops stay within their caps and an exhausted cap ends in a
\* non-zero exit.
CapsRespected ==
    /\ i <= maxAttempts
    /\ counter <= ShellTimeout
    /\ counter % ShellSleep = 0
    /\ counter \div ShellSleep <= 60
    /\ attempt <= LoginTestAttempts
    /\ (ShellReadinessExhausted /\ shpc # "readiness") =>
          (shpc = "exit" /\ shExit = 1)
    /\ ShellLoginAttemptsExhausted => (shpc = "exit" /\ shExit # 0 /\ shExit # -1)
    /\ BudgetExhausted =>
          /\ stage["readiness"] = "failed"
          /\ rc \in {"catch", "rethrow", "exit"}
          /\ rc = "exit" => exitCode = 1

\* C30: every run terminates, and the retry loops keep to their caps (45
\* rounds in waitForN8NReady, 60 rounds and 5 attempts in setup-api.sh); an
\* exhausted cap leads to an exit with a non-zero status.
C30_EveryRunTerminates == []CapsRespected /\ <>Terminated

C30_Witness ==
    /\ shpc = "node"
    /\ BudgetExhausted
    /\ probes = maxAttempts * Len(healthEndpoints)
    /\ rc = "exit"
    /\ exitCode = 1

C30_WitnessShellLoginExhausted ==
    /\ ShellLoginAttemptsExhausted
    /\ shExit = 1
    /\ rc = "shell"

C30_WitnessShellReadinessExhausted ==
    /\ ShellReadinessExhausted
    /\ shpc = "exit"
    /\ shExit = 1

\* what the message would print for a health outcome
StatusText(r) ==
    IF r = ConnFail THEN <<"no response">> ELSE NumberText(r)

\* waitForN8NReady has thrown its timeout error into run()'s catch
ReadinessTimedOut == stage["readiness"] = "failed" /\ BudgetExhausted

\* C31 as stated: the timeout error of waitForN8NReady carries the duration
\* of the polling and the last status seen from the health probes.
C31_TimeoutCarriesDurationAndStatuses ==
    ReadinessTimedOut =>
        /\ Contains(runError, ToFixed1(maxAttempts * delay) \o <<" minutes">>)
        /\ Contains(runError, StatusText(lastHealth))

\* The part of C31 the code keeps: the message names the attempts and the
\* nominal duration maxAttempts * delay.
C31_TimeoutCarriesDuration ==
    ReadinessTimedOut =>
        /\ Contains(runError, NumberText(maxAttempts) \o <<" attempts over ">>
                              \o ToFixed1(maxAttempts * delay) \o <<" minutes">>)
        /\ Len(runError) = Len(ReadinessTimeoutMsg)

C31_Witness ==
    /\ ReadinessTimedOut
    /\ lastHealth = 503
    /\ rc = "catch"
    /\ runError = ReadinessTimeoutMsg

\* the paths of a round's log, in the order they were requested
Paths(log) == [k \in 1..Len(log) |-> log[k].path]

\* the inner loop over the endpoints is over: a 200 was seen or the list
\* is used up
RoundOver == healthCheckPassed \/ ep = 1 \/ ep > Len(healthEndpoints)

\* C32: a round probes /healthz, /healthz/readiness, /api/v1/healthz, / in
\* that order, stops at the first 200, and moves to the next path on any
\* other status or on a connection failure, so a finished round has issued
\* between 1 and 4 probes and polling goes on.
C32_RoundProbesInOrderUntilFirst200 ==
    /\ Len(roundLog) <= Len(healthEndpoints)
    /\ Paths(roundLog) = SubSeq(healthEndpoints, 1, Len(roundLog))
    /\ \A k \in 1..(Len(roundLog) - 1) : roundLog[k].status # 200
    /\ (roundLog # <<>> /\ RoundOver) =>
          \/ roundLog[Len(roundLog)].status = 200
          \/ Len(roundLog) = Len(healthEndpoints)
    /\ (roundLog # <<>> /\ roundLog[Len(roundLog)].status # 200
          /\ Len(roundLog) < Len(healthEndpoints)) =>
             /\ stage["readiness"] = "running"
             /\ rpc = "probe"
             /\ ep = Len(roundLog) + 1
    /\ (roundLog # <<>> /\ roundLog[Len(roundLog)].status # 200
          /\ Len(roundLog) = Len(healthEndpoints) /\ i < maxAttempts) =>
             /\ stage["readiness"] = "running"
             /\ rpc = "probe"
    /\ (stage["readiness"] = "running" /\ i > 0) => roundLog # <<>>

\* a round that saw a connection failure and a 503 and then a 200 on the
\* third path
C32_Witness ==
    /\ Len(roundLog) = 3
    /\ roundLog[1].status = ConnFail
    /\ roundLog[2].status = 503
    /\ roundLog[3].status = 200
    /\ rpc = "login"
    /\ i > 0

\* a round that used all four paths without a 200, and polling goes on
C32_WitnessFourProbes ==
    /\ Len(roundLog) = 4
    /\ roundLog[1].status = ConnFail
    /\ ep = 1
    /\ i = 2
    /\ rpc = "probe"
    /\ stage["readiness"] = "running"

\* the least token length the acquirers let through
SanityFloor == 20

\* C33: a credential that reaches validation, persistence or notification
\* has a token of at least 20 characters (more than 20 from the session
\* method), so the record never receives a shorter token.
C33_TokenAtLeastSanityFloor ==
    /\ stage["validation"] # "idle" => apiKeyData.apiKey >= SanityFloor
    /\ \A k \in 1..Len(storeLog) : storeLog[k].cred.apiKey >= SanityFloor
    /\ WebhookSent => apiKeyData.apiKey >= SanityFloor
    /\ dbKey = NoKey \/ dbKey >= SanityFloor
    /\ apiKeyData.method = "session" => apiKeyData.apiKey > SanityFloor
    /\ apiKeyData.method = "browser" => apiKeyData.apiKey >= SanityFloor

\* a browser-extracted token of exactly 20 characters was stored
C33_Witness ==
    /\ apiKeyData.method = "browser"
    /\ apiKeyData.apiKey = SanityFloor
    /\ lastCreate.status = 201
    /\ lastCreate.key = SanityFloor
    /\ stage["persistence"] = "ok"
    /\ dbKey = SanityFloor

\* an acquirer has returned a credential to run()
CredentialReturned == apiKeyData # NoCredential

\* C34 as stated: the label of the returned credential, and with it the
\* label stored in the record, is the label that was given to the target
\* when the key was created, on the session path and on the browser path,
\* also when the browser found no label input.
C34_RecordLabelIsSubmittedLabel ==
    /\ CredentialReturned => apiKeyData.label = submittedLabel
    /\ \A k \in 1..Len(storeLog) : storeLog[k].cred.label = submittedLabel
    /\ stage["persistence"] = "ok" => dbLabel = submittedLabel

\* What the code keeps: the label is the submitted one on the session path
\* and the generated keyLabel on every path.
C34_SessionLabelIsSubmittedLabel ==
    /\ CredentialReturned => apiKeyData.label = KeyLabel
    /\ (CredentialReturned /\ apiKeyData.method = "session") =>
          apiKeyData.label = submittedLabel

C34_Witness ==
    /\ CredentialReturned
    /\ apiKeyData.method = "browser"
    /\ submittedLabel = TargetDefaultLabel
    /\ stage["persistence"] = "ok"
    /\ dbLabel = KeyLabel

\* the extraction has ended, with a token or with its error
ExtractDone ==
    /\ apc \in {"close", "screenshot", "none"}
    /\ candidate # NoCandidate \/ xi > Len(apiKeySelectors)

ExtractFailed == browserError = ExtractFailedMsg

\* C35 as stated: the page content is searched whenever the selectors gave
\* no token of at least 20 characters, and the extraction fails only when
\* neither the selectors nor the page content hold such a token.
C35_FallbackWheneverNoUsableToken ==
    ExtractDone =>
        /\ candidate < 20 => pageSearched
        /\ ExtractFailed => (candidate < 20 /\ FirstMatch(pageText) < 20)

\* What the code does: the page content is searched exactly when the
\* selector loop left apiKey null or empty, and the extraction fails
\* exactly when the value it ends with, the accepted element text or else
\* the first match in the page content, is shorter than 20 characters.
C35_FallbackOnlyWhenNoCandidate ==
    ExtractDone =>
        /\ pageSearched <=> (candidate = NoCandidate \/ candidate = 0)
        /\ ExtractFailed <=>
              \/ candidate \in 1..19
              \/ candidate \in {NoCandidate, 0} /\ FirstMatch(pageText) < 20
        /\ (~ExtractFailed /\ apc # "none") =>
              pendingKey = IF pageSearched THEN FirstMatch(pageText) ELSE candidate

\* a short element text with the n8n_api_ marker ends the extraction while
\* the page content holds a full token
C35_Witness ==
    /\ ExtractDone
    /\ candidate = 12
    /\ pageText = "hex64"
    /\ ~pageSearched
    /\ ExtractFailed
    /\ xi = 3

\* the page content supplies the token after a blank element text
C35_WitnessFallbackUsed ==
    /\ ExtractDone
    /\ candidate = 0
    /\ pageSearched
    /\ pageText = "alnum60"
    /\ pendingKey = 68
    /\ apc = "close"

\* the error update of run()'s catch block is made in this step
DiagnosticWrite == diagCalls' = diagCalls + 1

\* the record holds the credential it held when the process started
HoldsEarlierCredential ==
    /\ dbKey \in {NoKey, OldKey}
    /\ dbLabel = (IF dbKey = OldKey THEN "API-user-t0" ELSE "")
    /\ dbCreatedAt = (IF dbKey = OldKey THEN "t0" ELSE "")

\* C36: the diagnostic write of the failure path changes at most the error
\* message, the error timestamp and updated-at of the user's record; token,
\* label and created-at stay as they were, so a failed run leaves the
\* credential of an earlier run in the record.
C36_DiagnosticWriteKeepsCredential ==
    /\ [][DiagnosticWrite =>
            /\ dbRow' = dbRow
            /\ dbKey' = dbKey
            /\ dbLabel' = dbLabel
            /\ dbCreatedAt' = dbCreatedAt
            /\ (diagResult' = "ok" /\ dbRow) =>
                  /\ dbErr' = runError
                  /\ dbErrAt' = dbUpdatedAt'
                  /\ dbUpdatedAt' > dbUpdatedAt
            /\ ~(diagResult' = "ok" /\ dbRow) =>
                  UNCHANGED <<dbErr, dbErrAt, dbUpdatedAt>>]_vars
    /\ []((\A k \in 1..Len(storeLog) : storeLog[k].result # "rows")
             => HoldsEarlierCredential)

\* a run that failed has written its error next to the earlier credential
C36_Witness ==
    /\ rc = "exit"
    /\ exitCode = 1
    /\ diagResult = "ok"
    /\ dbKey = OldKey
    /\ dbLabel = "API-user-t0"
    /\ dbErr = runError
    /\ dbErr # NoError
    /\ dbErrAt = 1
    /\ dbUpdatedAt = 1

\* C37: a store leaves the error message and the error timestamp of the
\* record as they were; after a failed run and a successful one the record
\* holds the earlier error next to the new credential.
C37_StoreKeepsErrorFields ==
    /\ [][StoreFinishes =>
            /\ dbRow' = dbRow
            /\ dbErr' = dbErr
            /\ dbErrAt' = dbErrAt
            /\ storeLog'[Len(storeLog')].result = "rows" =>
                  /\ dbKey' = apiKeyData.apiKey
                  /\ dbUpdatedAt' > dbUpdatedAt]_vars
    /\ []((dbErrAt # NoTime) => (dbErr # NoError /\ diagCalls > 0))
    /\ []((diagResult = "ok" /\ dbRow) => dbErr # NoError)

\* the store of a later run succeeded and the error of the earlier run is
\* still in the record
C37_Witness ==
    /\ Len(storeLog) = 2
    /\ storeLog[1].result = "dberror"
    /\ storeLog[2].result = "rows"
    /\ stage["persistence"] = "ok"
    /\ runError = NoError
    /\ dbKey = apiKeyData.apiKey
    /\ dbErr = StoreErrorMsg("dberror")
    /\ dbErrAt = 2
    /\ dbUpdatedAt = 3

\* C38 as stated: in every execution, also one that receives SIGTERM or
\* SIGINT while a stage is in progress, an exit status of 0 means that the
\* credential store of this execution succeeded.
C38_ExitZeroOnlyAfterStore ==
    (rc = "exit" /\ exitCode = 0) =>
        /\ stage["persistence"] = "ok"
        /\ LastStoreResult = "rows"
        /\ dbKey = apiKeyData.apiKey

\* the process was ended with status 0 while the browser acquirer ran
C38_WitnessSignalDuringAcquisition ==
    /\ rc = "exit"
    /\ exitCode = 0
    /\ stage["acquisition"] = "running"
    /\ browserOpen
    /\ storeLog = <<>>

\* the wrapper has ended with status 0
WrapperSucceeded == shpc = "exit" /\ shExit = 0

\* the record holds the credential that this invocation acquired and stored
FreshCredentialStored ==
    /\ stage["persistence"] = "ok"
    /\ LastStoreResult = "rows"
    /\ dbKey = apiKeyData.apiKey
    /\ dbLabel = apiKeyData.label

\* C39 as stated: setup-api.sh ends with status 0 only when a credential
\* created by this invocation is in the user's record; a token left by an
\* earlier invocation does not turn a failed create-api-key.js into success.
C39_WrapperZeroOnlyWithFreshCredential ==
    WrapperSucceeded => FreshCredentialStored

\* What the wrapper does ensure: it ends with status 0 only when node exited
\* with 0 or the record holds some token of more than 10 characters.
C39_WrapperZeroOnlyWithSomeToken ==
    WrapperSucceeded => (exitCode = 0 \/ (dbRow /\ dbKey > 10))

\* node failed before any store and the wrapper reported success on the
\* token of an earlier invocation
C39_WitnessStaleToken ==
    /\ WrapperSucceeded
    /\ exitCode = 1
    /\ storeLog = <<>>
    /\ stage["readiness"] = "failed"
    /\ dbKey = OldKey

====
